---- MODULE Spec2Model ----
(***************************************************************************)
(* Intent resolution pipeline: IntentCache (core/intent_cache.py),         *)
(* IntentRecognizer (core/intent_recognizer.py) and ToolRouter             *)
(* (core/tool_router.py).                                                  *)
(*                                                                         *)
(* Conventions.                                                            *)
(*  - Python's None is the string "None" where the value is a string, and  *)
(*    the empty tuple <<>> where the value is optional (Some(v) = <<v>>).  *)
(*  - A dict is a sequence of [q, i] records in insertion order, which is  *)
(*    the order Python iterates it in.                                     *)
(*  - Confidences are integers in percent (0.7 is 70); similarities and    *)
(*    thresholds are fractions <<numerator, denominator>>.                 *)
(*  - A query text is an atom; what jieba makes of it is the table         *)
(*    Segment.                                                             *)
(***************************************************************************)
EXTENDS Integers, Sequences, FiniteSets, TLC

VARIABLES
    max_entries,      \* IntentCache.max_entries
    exact_cache,      \* IntentCache.exact_cache: dict query -> intent dict
    keyword_index,    \* IntentCache.keyword_index: dict keyword -> set of queries
    last_save_time,   \* IntentCache.last_save_time
    now,              \* time.time(), in seconds
    file,             \* the cache file: [kind, data]
    last,             \* the last cache operation and its arguments
    ret,              \* what the last cache operation returned
    use_cache,        \* IntentRecognizer.use_cache
    tasks,            \* the recognize calls: task -> where it is and what it holds
    state_manager,    \* ToolRouter.state_manager is an object (TRUE) or None
    context,          \* StateManager.context: the GlobalContext
    sessions,         \* ToolRouter.sessions: dict tool -> session data
    exit_stack,       \* ToolRouter.exit_stack: the contexts entered, in order
    route,            \* the execute_tool_async call: where it is and what it holds
    initialize,       \* the initialize call: where it is and what it holds
    cleanup,          \* the cleanup call: where it is and what it holds
    merge,            \* a call of _merge_intents: its arguments and its result
    history           \* what is remembered of the cache's past (history variable)

cacheVars == <<max_entries, exact_cache, keyword_index, last_save_time, now, file>>
recogVars == <<use_cache, tasks>>
routerVars == <<state_manager, context, sessions, exit_stack, route>>
lifeVars == <<initialize, cleanup>>
vars == <<cacheVars, last, ret, recogVars, routerVars, lifeVars, merge, history>>

----------------------------------------------------------------------------
(* Bounds of the model *)

\* largest max_entries a cache is constructed with
MaxCap == 5

\* largest max_entries of a cache that is also looked up
MaxLookupCap == 3

----------------------------------------------------------------------------
(* Values *)

None == "None"

Range(s) == {s[j] : j \in DOMAIN s}

\* Intent.to_dict(): the mapping the cache stores
IntentDict(type, confidence, tool_name, entities, raw_query) ==
    [type |-> type, confidence |-> confidence, tool_name |-> tool_name,
     entities |-> entities, raw_query |-> raw_query]

\* query texts handed to the cache
Queries == {"q1", "q2", "q3", "q4", "q5", "q6"}

\* query texts handed to the recognizer:
\*   w1   one weather keyword (the weather example)
\*   w1b  w1 behind a one-character word: the same keywords for the cache
\*   w2   two weather keywords
\*   cmd  a command keyword
\*   chat no keyword of any rule
\*   w1_OK  w1 followed by the word OK in capitals (w1_ok is its lower case)
\*   w3   three weather keywords
\*   w1m2 one weather keyword and two market keywords
\*   o    one character, which is one token and no keyword
Texts == {"w1", "w1b", "w2", "cmd", "chat", "w1_OK", "w3", "w1m2", "o"}

\* jieba.cut_for_search(text): the tokens of each text, in order
Segment(text) ==
    CASE text = "q1" -> <<"aa", "bb">>
      [] text = "q2" -> <<"aa", "cc">>
      [] text = "q3" -> <<"bb", "x", "aa", "bb">>
      [] text = "q4" -> <<"x", "y">>
      [] text = "q5" -> <<"cc", "dd">>
      [] text = "q6" -> <<"bb", "cc", "dd">>
      [] text = "w1" -> <<"chongqing", "mingtian", "tianqi", "zenmeyang">>
      [] text = "w1b" -> <<"a", "chongqing", "mingtian", "tianqi", "zenmeyang">>
      [] text = "w2" -> <<"jintian", "tianqi", "qiwen">>
      [] text = "cmd" -> <<"shezhi", "zhuti">>
      [] text = "chat" -> <<"nihao">>
      [] text = "w1_OK" -> <<"chongqing", "mingtian", "tianqi", "zenmeyang", "OK">>
      [] text = "w1_ok" -> <<"chongqing", "mingtian", "tianqi", "zenmeyang", "ok">>
      [] text = "w3" -> <<"tianqi", "qiwen", "hui", "xiayu", "ma">>
      [] text = "w1m2" -> <<"shangchang", "gouwu", "tianqi", "hao", "ma">>
      [] text = "o" -> <<"o">>
      [] OTHER -> <<>>

\* thresholds lookup is called with
Thresholds == {<<1, 3>>, <<1, 2>>, <<3, 2>>}

----------------------------------------------------------------------------
(* IntentCache: pure parts *)

Keys(cache) == {cache[j].q : j \in DOMAIN cache}

\* cache[q] for a key q
Entry(cache, q) == (CHOOSE j \in DOMAIN cache : cache[j].q = q)

Get(cache, q) == cache[Entry(cache, q)].i

\* mutant of Put: the entry goes last, whether the key is new or not
Put_Appends(cache, q, i) == Append(cache, [q |-> q, i |-> i])

\* mutant of Put: an existing key is taken out and put again, last
Put_MovesToEnd(cache, q, i) ==
    Append(SelectSeq(cache, LAMBDA e : e.q # q), [q |-> q, i |-> i])

\* mutant of Put: dict.setdefault, an existing key keeps its entry
Put_KeepsOld(cache, q, i) ==
    IF q \in {cache[j].q : j \in DOMAIN cache} THEN cache
    ELSE Append(cache, [q |-> q, i |-> i])

\* cache[q] = i: an existing key keeps its place, a new one goes last
Put(cache, q, i) ==
    IF q \in Keys(cache)
    THEN [cache EXCEPT ![Entry(cache, q)] = [q |-> q, i |-> i]]
    ELSE Append(cache, [q |-> q, i |-> i])

\* _extract_keywords: the tokens longer than one character
extract_keywords(text) == SelectSeq(Segment(text), LAMBDA w : Len(w) > 1)

\* one turn of _index_keywords' loop
IndexOne(index, keyword, query) ==
    [k \in DOMAIN index \cup {keyword} |->
        IF k = keyword
        THEN (IF k \in DOMAIN index THEN index[k] ELSE {}) \cup {query}
        ELSE index[k]]

RECURSIVE IndexLoop(_, _, _)
IndexLoop(index, keywords, query) ==
    IF keywords = <<>> THEN index
    ELSE IndexLoop(IndexOne(index, Head(keywords), query), Tail(keywords), query)

\* _index_keywords
index_keywords(index, query) == IndexLoop(index, extract_keywords(query), query)

\* mutant of UnindexOne: the bucket left empty is not deleted
UnindexOne_KeepsBucket(index, keyword, key) ==
    IF keyword \in DOMAIN index /\ key \in index[keyword]
    THEN [index EXCEPT ![keyword] = @ \ {key}]
    ELSE index

\* one turn of _cleanup_cache's inner loop
UnindexOne(index, keyword, key) ==
    IF keyword \in DOMAIN index /\ key \in index[keyword]
    THEN IF index[keyword] \ {key} = {}
         THEN [k \in DOMAIN index \ {keyword} |-> index[k]]
         ELSE [index EXCEPT ![keyword] = @ \ {key}]
    ELSE index

RECURSIVE UnindexLoop(_, _, _)
UnindexLoop(index, keywords, key) ==
    IF keywords = <<>> THEN index
    ELSE UnindexLoop(UnindexOne(index, Head(keywords), key), Tail(keywords), key)

\* mutant of ItemsToRemove: half of the entries
ItemsToRemove_Half(n) == n \div 2

\* int(len * 0.25)
ItemsToRemove(n) == n \div 4

RECURSIVE RemoveKeys(_, _, _)
RemoveKeys(cache, index, n) ==
    IF n = 0 THEN [cache |-> cache, index |-> index]
    ELSE RemoveKeys(Tail(cache),
                    UnindexLoop(index, extract_keywords(Head(cache).q), Head(cache).q),
                    n - 1)

\* _cleanup_cache
cleanup_cache(cache, index, cap) ==
    IF 2 * Len(cache) <= cap
    THEN [cache |-> cache, index |-> index]
    ELSE RemoveKeys(cache, index, ItemsToRemove(Len(cache)))

\* the first statement of add: the cleanup of a cache that is full
make_room(cache, index, cap) ==
    IF Len(cache) >= cap
    THEN cleanup_cache(cache, index, cap)
    ELSE [cache |-> cache, index |-> index]

\* add, up to the save
add(cache, index, cap, query, intent_dict) ==
    LET c == make_room(cache, index, cap)
    IN  [cache |-> Put(c.cache, query, intent_dict),
         index |-> index_keywords(c.index, query)]

\* fractions with positive denominators
FracGt(a, b) == a[1] * b[2] > b[1] * a[2]
FracGe(a, b) == a[1] * b[2] >= b[1] * a[2]

\* the elements of a Python set in the order it iterates them
Iterate(bucket, order) == SelectSeq(order, LAMBDA x : x \in bucket)

\* the inner loop of _find_candidates: a dict keeps a key where it was first put
RECURSIVE CandidatesOfBucket(_, _)
CandidatesOfBucket(candidates, queries) ==
    IF queries = <<>> THEN candidates
    ELSE CandidatesOfBucket(
            IF Head(queries) \in Range(candidates) THEN candidates
            ELSE Append(candidates, Head(queries)),
            Tail(queries))

RECURSIVE CandidatesLoop(_, _, _, _)
CandidatesLoop(candidates, index, keywords, order) ==
    IF keywords = <<>> THEN candidates
    ELSE CandidatesLoop(
            IF Head(keywords) \in DOMAIN index
            THEN CandidatesOfBucket(candidates, Iterate(index[Head(keywords)], order))
            ELSE candidates,
            index, Tail(keywords), order)

\* _find_candidates: the keys of the dict it returns, in the dict's order (the
\* counts it holds are not read by _find_best_match)
find_candidates(index, keywords, order) == CandidatesLoop(<<>>, index, keywords, order)

\* mutant of Similarity: the overlap is not taken off the union
Similarity_NoUnion(query_keywords, candidate) ==
    LET query_set == Range(query_keywords)
        candidate_set == Range(extract_keywords(candidate))
        overlap == Cardinality(query_set \cap candidate_set)
        total == Cardinality(query_set) + Cardinality(candidate_set)
    IN  IF total > 0 THEN <<overlap, total>> ELSE <<0, 1>>

\* the Jaccard similarity _find_best_match computes for one candidate
Similarity(query_keywords, candidate) ==
    LET query_set == Range(query_keywords)
        candidate_set == Range(extract_keywords(candidate))
        overlap == Cardinality(query_set \cap candidate_set)
        union == Cardinality(query_set) + Cardinality(candidate_set) - overlap
    IN  IF union > 0 THEN <<overlap, union>> ELSE <<0, 1>>

RECURSIVE BestLoop(_, _, _)
BestLoop(best, query_keywords, candidates) ==
    IF candidates = <<>> THEN best
    ELSE LET similarity == Similarity(query_keywords, Head(candidates))
         IN  BestLoop(IF FracGt(similarity, best.score)
                      THEN [match |-> Head(candidates), score |-> similarity]
                      ELSE best,
                      query_keywords, Tail(candidates))

\* _find_best_match
find_best_match(query_keywords, candidates) ==
    BestLoop([match |-> "", score |-> <<0, 1>>], query_keywords, candidates)

\* mutant of lookup: the keyword match is tried before the exact one
lookup_FuzzyFirst(cache, index, query, threshold, order) ==
    LET keywords == extract_keywords(query)
        candidates == find_candidates(index, keywords, order)
        best == find_best_match(keywords, candidates)
    IN  IF keywords # <<>> /\ candidates # <<>> /\ FracGe(best.score, threshold)
        THEN <<Get(cache, best.match)>>
        ELSE IF query \in Keys(cache) THEN <<Get(cache, query)>> ELSE <<>>

\* mutant of lookup: the keyword match alone, an exact key is not looked for
lookup_FuzzyOnly(cache, index, query, threshold, order) ==
    LET keywords == extract_keywords(query)
        candidates == find_candidates(index, keywords, order)
        best == find_best_match(keywords, candidates)
    IN  IF keywords # <<>> /\ candidates # <<>> /\ FracGe(best.score, threshold)
        THEN <<Get(cache, best.match)>>
        ELSE <<>>

\* lookup: <<>> is None, <<entry>> a hit
lookup(cache, index, query, threshold, order) ==
    IF query \in Keys(cache) THEN <<Get(cache, query)>>
    ELSE LET keywords == extract_keywords(query)
             candidates == find_candidates(index, keywords, order)
             best == find_best_match(keywords, candidates)
         IN  IF keywords = <<>> THEN <<>>
             ELSE IF candidates # <<>> /\ FracGe(best.score, threshold)
                  THEN <<Get(cache, best.match)>>
                  ELSE <<>>

----------------------------------------------------------------------------
(* IntentCache: persistence *)

AbsentFile == [kind |-> "absent", data |-> <<>>]
\* a file json.load or the loop over its exact_cache fails on
CorruptFile == [kind |-> "corrupt", data |-> <<>>]
\* a file holding {"exact_cache": data, "updated_at": ...}
OkFile(data) == [kind |-> "ok", data |-> data]

RECURSIVE RebuildIndex(_, _)
RebuildIndex(index, cache) ==
    IF cache = <<>> THEN index
    ELSE RebuildIndex(index_keywords(index, Head(cache).q), Tail(cache))

EmptyIndex == [k \in {} |-> {}]

\* mutant of LoadedIndex: the loop of line 63 runs without the reset of line 62
LoadedIndex_OnTop(index, data) == RebuildIndex(index, data)

\* the keyword index load_cache builds for the exact cache it read
LoadedIndex(index, data) == RebuildIndex(EmptyIndex, data)

\* load_cache: the exact cache and the keyword index after it, and whether it
\* raised
load_cache(cache, index, f) ==
    IF f.kind = "absent" THEN [cache |-> cache, index |-> index, raised |-> FALSE]
    ELSE IF f.kind = "ok"
         THEN [cache |-> f.data, index |-> LoadedIndex(index, f.data),
               raised |-> FALSE]
         ELSE [cache |-> <<>>, index |-> EmptyIndex, raised |-> FALSE]

\* max_entries of the cache get_intent_cache() builds
DefaultMaxEntries == 1000

\* the least time between two saves that are not forced
SaveInterval == 30
\* add saves when the number of entries is a multiple of this
SavePeriod == 100

\* how the write of a save ends: done, open() raises, json.dump raises
WriteOutcomes == {"ok", "open_fails", "dump_fails"}

\* what a call of save_cache leaves: the file, last_save_time, how the call went
\* ("skipped" when it returned before the write, else the outcome of the write)
\* and whether it raised
Saved(f, saved, wrote, raised) ==
    [file |-> f, saved |-> saved, wrote |-> wrote, raised |-> raised]

\* mutant of Debounced: every save is due
Debounced_Never(force, saved, time) == FALSE

\* not force and (current_time - self.last_save_time < 30)
Debounced(force, saved, time) == ~force /\ time - saved < SaveInterval

\* mutant of WriteFailed: the exception goes on to the caller
WriteFailed_Reraises(f, saved, outcome) ==
    Saved(IF outcome = "dump_fails" THEN CorruptFile ELSE f, saved, outcome, TRUE)

\* the handler of save_cache: open() left the file as it was, json.dump failed on
\* a file open() had truncated
WriteFailed(f, saved, outcome) ==
    Saved(IF outcome = "dump_fails" THEN CorruptFile ELSE f, saved, outcome, FALSE)

\* the JSON values of an intent dict: a string, a number, null, an array, and an
\* object as its members in the order they are written
JsonString(text) == <<"string", text>>
JsonNumber(n) == <<"number", n>>
JsonNull == <<"null">>
JsonArray(items) == <<"array", items>>
JsonObject(members) == <<"object", members>>
Member(name, value) == [name |-> name, value |-> value]

\* json.dump of an entity dict and of an intent dict
DumpEntity(e) ==
    JsonObject(<<Member("type", JsonString(e.type)),
                 Member("value", JsonString(e.value)),
                 Member("confidence", JsonNumber(e.confidence))>>)

DumpIntent(i) ==
    JsonObject(<<Member("type", JsonString(i.type)),
                 Member("confidence", JsonNumber(i.confidence)),
                 Member("tool_name",
                        IF i.tool_name = None THEN JsonNull ELSE JsonString(i.tool_name)),
                 Member("entities",
                        JsonArray([k \in DOMAIN i.entities |-> DumpEntity(i.entities[k])])),
                 Member("raw_query", JsonString(i.raw_query))>>)

\* the exact cache with its entries in the order of OrderedQueries
OrderedQueries == <<"q1", "q2", "q3", "q4", "q5", "q6">>
SortedByKey(cache) ==
    LET keys == SelectSeq(OrderedQueries, LAMBDA q : q \in Keys(cache))
    IN  [j \in DOMAIN keys |-> [q |-> keys[j], i |-> Get(cache, keys[j])]]

\* mutant of json_dump: json.dump(..., sort_keys=True)
json_dump_SortKeys(cache) ==
    JsonObject([j \in DOMAIN cache |->
                  Member(SortedByKey(cache)[j].q, DumpIntent(SortedByKey(cache)[j].i))])

\* json.dump of {"exact_cache": cache, ...}: the object written for exact_cache, a
\* member for each key in the order the dict iterates
json_dump(cache) ==
    JsonObject([j \in DOMAIN cache |-> Member(cache[j].q, DumpIntent(cache[j].i))])

\* json.load: the Python value of a JSON value (of the members of an object that
\* have one name the last gives the value)
RECURSIVE LoadValue(_)
LoadValue(v) ==
    CASE v[1] = "string" -> v[2]
      [] v[1] = "number" -> v[2]
      [] v[1] = "null" -> None
      [] v[1] = "array" -> [k \in DOMAIN v[2] |-> LoadValue(v[2][k])]
      [] v[1] = "object" ->
           [name \in {v[2][k].name : k \in DOMAIN v[2]} |->
              LoadValue(v[2][CHOOSE k \in DOMAIN v[2] :
                                /\ v[2][k].name = name
                                /\ \A l \in DOMAIN v[2] :
                                      v[2][l].name = name => l <= k].value)]

\* json.load of the file save_cache wrote, and its exact_cache
json_load(text) ==
    [j \in DOMAIN text[2] |-> [q |-> text[2][j].name, i |-> LoadValue(text[2][j].value)]]

\* save_cache
save_cache(force, cache, f, saved, time, outcome) ==
    IF Debounced(force, saved, time) THEN Saved(f, saved, "skipped", FALSE)
    ELSE IF outcome = "ok"
         THEN Saved(OkFile(json_load(json_dump(cache))), time, "ok", FALSE)
    ELSE WriteFailed(f, saved, outcome)

----------------------------------------------------------------------------
(* IntentCache: construction and operations *)

\* two intent dicts to store
DictA == IntentDict("TOOL_SPECIFIC", 90, "weather", <<>>, "q")
DictB == IntentDict("CHAT", 50, None, <<>>, "q")

\* the (query, intent dict) pairs add is called with
AddInputs ==
    {<<"q1", DictA>>, <<"q1", DictB>>, <<"q2", DictB>>, <<"q3", DictB>>,
     <<"q4", DictA>>, <<"q5", DictA>>, <<"q6", DictB>>}

OrderUp ==
    <<"q1", "q2", "q3", "q4", "q5", "q6", "w1", "w1b", "w2", "cmd", "chat", "w1_OK",
      "w3", "w1m2">>
OrderDown ==
    <<"w1m2", "w3", "w1_OK", "chat", "cmd", "w2", "w1b", "w1", "q6", "q5", "q4", "q3",
      "q2", "q1">>

\* iteration orders of a Python set of strings (hash order): two opposite ones
SetOrders == {OrderUp, OrderDown}

\* the (query, threshold) pairs lookup is called with, and the order the sets of
\* the index iterate in during the call
LookupInputs ==
    {<<"q1", <<1, 2>>, OrderUp>>, <<"q1", <<3, 2>>, OrderDown>>,
     <<"q2", <<1, 3>>, OrderUp>>, <<"q2", <<1, 3>>, OrderDown>>,
     <<"q2", <<1, 2>>, OrderUp>>, <<"q3", <<1, 2>>, OrderDown>>,
     <<"q4", <<1, 3>>, OrderUp>>}

\* the cache files a cache is constructed over
EnvFiles ==
    {AbsentFile, CorruptFile,
     OkFile(<<[q |-> "q3", i |-> DictB], [q |-> "q2", i |-> DictB]>>)}

NoOp(op) ==
    [op |-> op, q |-> "", i |-> <<>>, t |-> <<0, 1>>, pre |-> 0, fresh |-> FALSE,
     save |-> "none", raised |-> FALSE]

\* __init__: the fields, then load_cache
CacheInit(caps, files) ==
    /\ max_entries \in caps
    /\ file \in files
    /\ now = 0
    /\ last_save_time = 0
    /\ LET l == load_cache(<<>>, EmptyIndex, file)
       IN  exact_cache = l.cache /\ keyword_index = l.index
    /\ last = NoOp("init")
    /\ ret = <<>>

\* load_cache()
LoadCache ==
    /\ LET l == load_cache(exact_cache, keyword_index, file)
       IN  /\ exact_cache' = l.cache /\ keyword_index' = l.index
           /\ last' = [NoOp("load") EXCEPT !.raised = l.raised]
    /\ ret' = <<>>
    /\ UNCHANGED <<max_entries, last_save_time, now, file>>

\* mutant of PeriodReached: add never saves
PeriodReached_Never(entries) == FALSE

\* len(self.exact_cache) % 100 == 0
PeriodReached(entries) == entries % SavePeriod = 0

\* add(query, intent_dict), with the save it ends with; last.save is how the
\* call of save_cache went, "none" when add made none
Add(query, intent_dict) ==
    /\ LET a == add(exact_cache, keyword_index, max_entries, query, intent_dict)
           called == [op |-> "add", q |-> query, i |-> <<intent_dict>>,
                      t |-> <<0, 1>>, pre |-> Len(exact_cache),
                      fresh |-> query \notin Keys(exact_cache),
                      save |-> "none", raised |-> FALSE]
       IN  /\ exact_cache' = a.cache
           /\ keyword_index' = a.index
           /\ IF PeriodReached(Len(a.cache))
              THEN \E outcome \in WriteOutcomes :
                     LET s == save_cache(FALSE, a.cache, file, last_save_time, now, outcome)
                     IN  /\ file' = s.file /\ last_save_time' = s.saved
                         /\ last' = [called EXCEPT !.save = s.wrote,
                                                   !.raised = s.raised]
              ELSE /\ UNCHANGED <<file, last_save_time>>
                   /\ last' = called
    /\ ret' = <<>>
    /\ UNCHANGED <<max_entries, now>>

\* save_cache(force)
Save(force, outcome) ==
    /\ LET s == save_cache(force, exact_cache, file, last_save_time, now, outcome)
       IN  /\ file' = s.file /\ last_save_time' = s.saved
           /\ last' = [NoOp("save") EXCEPT !.save = s.wrote, !.raised = s.raised]
    /\ ret' = <<>>
    /\ UNCHANGED <<max_entries, exact_cache, keyword_index, now>>

\* time.time() goes on by d seconds
Tick(d) ==
    /\ now' = now + d
    /\ UNCHANGED <<max_entries, exact_cache, keyword_index, last_save_time, file,
                   last, ret>>

\* mutant of Lookup: a keyword match is remembered under the query that matched
Lookup_Remembers(query, threshold, order) ==
    LET found == lookup(exact_cache, keyword_index, query, threshold, order)
    IN  /\ ret' = found
        /\ last' = [op |-> "lookup", q |-> query,
                    i |-> IF last.op = "add" /\ last.q = query THEN last.i ELSE <<>>,
                    t |-> threshold, pre |-> Len(exact_cache),
                    fresh |-> query \notin Keys(exact_cache),
                    save |-> "none", raised |-> FALSE]
        /\ exact_cache' = IF found # <<>> THEN Put(exact_cache, query, found[1])
                          ELSE exact_cache
        /\ keyword_index' = IF found # <<>> THEN index_keywords(keyword_index, query)
                            ELSE keyword_index
        /\ UNCHANGED <<max_entries, last_save_time, now, file>>

\* lookup(query, threshold), the sets of the index iterating in `order`. last.i
\* keeps the intent dict of an add of the same query that came right before.
Lookup(query, threshold, order) ==
    /\ ret' = lookup(exact_cache, keyword_index, query, threshold, order)
    /\ last' = [op |-> "lookup", q |-> query,
                i |-> IF last.op = "add" /\ last.q = query THEN last.i ELSE <<>>,
                t |-> threshold, pre |-> Len(exact_cache),
                fresh |-> query \notin Keys(exact_cache),
                save |-> "none", raised |-> FALSE]
    /\ UNCHANGED cacheVars

\* no recognizer
RecogIdle == use_cache = TRUE /\ tasks = <<>>

\* no router
RouterIdle ==
    /\ state_manager = FALSE
    /\ context = <<>>
    /\ sessions = <<>>
    /\ exit_stack = <<>>
    /\ route = <<>>
    /\ initialize = <<>>
    /\ cleanup = <<>>

\* no merge on its own
MergeIdle == merge = <<>>

\* no history kept
HistoryIdle == history = <<>>

\* the cache under load and add
InitEvict == CacheInit(1..MaxCap, EnvFiles) /\ RecogIdle /\ RouterIdle /\ MergeIdle /\ HistoryIdle

NextEvict ==
    \/ LoadCache /\ UNCHANGED <<recogVars, routerVars, lifeVars, merge, history>>
    \/ \E a \in AddInputs : Add(a[1], a[2]) /\ UNCHANGED <<recogVars, routerVars, lifeVars, merge, history>>

SpecEvict == InitEvict /\ [][NextEvict]_vars

\* the cache under load, add and lookup
InitCache == CacheInit(1..MaxLookupCap, EnvFiles) /\ RecogIdle /\ RouterIdle /\ MergeIdle /\ HistoryIdle

NextCache ==
    \/ LoadCache /\ UNCHANGED <<recogVars, routerVars, lifeVars, merge, history>>
    \/ \E a \in AddInputs : Add(a[1], a[2]) /\ UNCHANGED <<recogVars, routerVars, lifeVars, merge, history>>
    \/ \E l \in LookupInputs : Lookup(l[1], l[2], l[3]) /\ UNCHANGED <<recogVars, routerVars, lifeVars, merge, history>>

SpecCache == InitCache /\ [][NextCache]_vars

----------------------------------------------------------------------------
(* IntentCache: the cache with its past *)

\* add calls a history counts
MaxAdds == 5

\* max_entries of the caches whose past is kept
AgedCaps == {1, 4}

\* What is remembered of the past of the cache:
\*   adds      the add calls made so far
\*   clock     the last insertion stamp given out
\*   born      for each key of the exact cache, the stamp of the add that
\*             inserted it (a key loaded from the file has its place in the file)
\*   evicted   the keys the last add removed before it stored its entry, the
\*             keys the last load dropped
\*   old       the entry the last add found under its key, if any
\*   force     the argument of the last save_cache
\*   saved_at  the time of the last write that succeeded (of construction
\*             before the first)
History(adds, clock, born, evicted, old, force, saved_at) ==
    [adds |-> adds, clock |-> clock, born |-> born, evicted |-> evicted,
     old |-> old, force |-> force, saved_at |-> saved_at]

\* the stamps of the entries read from a file: their places
Places(cache) == [q \in Keys(cache) |-> Entry(cache, q)]

AgedInit == history = History(0, Len(exact_cache), Places(exact_cache), {}, <<>>, FALSE, 0)

\* load_cache(), remembered
AgedLoad ==
    /\ LoadCache
    /\ history' = IF file.kind = "absent"
                  THEN [history EXCEPT !.evicted = {}, !.old = <<>>]
                  ELSE [history EXCEPT
                          !.clock = Len(exact_cache'),
                          !.born = Places(exact_cache'),
                          !.evicted = Keys(exact_cache) \ Keys(exact_cache'),
                          !.old = <<>>]

\* add(query, intent_dict), remembered: a key that is not in the cache when the
\* entry is stored (it never was, or the cleanup took it out) is born now
AgedAdd(query, intent_dict) ==
    /\ history.adds < MaxAdds
    /\ Add(query, intent_dict)
    /\ LET kept == Keys(make_room(exact_cache, keyword_index, max_entries).cache)
           stamp == history.clock + 1
       IN  history' =
             [history EXCEPT
                !.adds = @ + 1,
                !.clock = stamp,
                !.born = [q \in kept \cup {query} |->
                            IF q \in kept THEN history.born[q] ELSE stamp],
                !.evicted = Keys(exact_cache) \ kept,
                !.old = IF query \in Keys(exact_cache)
                        THEN <<Get(exact_cache, query)>> ELSE <<>>]

InitAged ==
    /\ CacheInit(AgedCaps, EnvFiles)
    /\ RecogIdle /\ RouterIdle /\ MergeIdle
    /\ AgedInit

NextAged ==
    \/ AgedLoad /\ UNCHANGED <<recogVars, routerVars, lifeVars, merge>>
    \/ \E a \in AddInputs :
         AgedAdd(a[1], a[2]) /\ UNCHANGED <<recogVars, routerVars, lifeVars, merge>>

SpecAged == InitAged /\ [][NextAged]_vars

----------------------------------------------------------------------------
(* IntentCache: saves over time *)

\* the time.time() up to which the saves are followed
MaxTime == 60

\* seconds between two readings of the clock: one short of the interval, and
\* the interval
Ticks == {SaveInterval - 1, SaveInterval}

\* the (query, intent dict) pairs added between the saves
SaveAdds == {<<"q1", DictA>>, <<"q2", DictB>>}

\* save_cache(force), remembered
SavedSave(force, outcome) ==
    /\ Save(force, outcome)
    /\ history' = [history EXCEPT !.force = force,
                                  !.saved_at = IF last'.save = "ok" THEN now ELSE @]

InitSave ==
    /\ CacheInit(AgedCaps, EnvFiles)
    /\ RecogIdle /\ RouterIdle /\ MergeIdle
    /\ AgedInit

NextSave ==
    \/ \E force \in BOOLEAN, outcome \in WriteOutcomes :
         SavedSave(force, outcome) /\ UNCHANGED <<recogVars, routerVars, lifeVars, merge>>
    \/ \E d \in Ticks :
         /\ now + d <= MaxTime
         /\ Tick(d)
         /\ UNCHANGED <<recogVars, routerVars, lifeVars, merge, history>>
    \/ \E a \in SaveAdds :
         Add(a[1], a[2]) /\ UNCHANGED <<recogVars, routerVars, lifeVars, merge, history>>

SpecSave == InitSave /\ [][NextSave]_vars

----------------------------------------------------------------------------
(* IntentCache: the save every hundred entries *)

\* add calls followed from the empty cache on
MaxInsertions == 126

\* max_entries: a cache that is full at the first save, and the default
PeriodCaps == {SavePeriod, DefaultMaxEntries}

\* the n-th query that is new to the cache (jieba finds no keyword in it)
NewQuery(n) == "n" \o ToString(n)

\* add(query, DictA), counted: the query is new, or the one added last
PeriodAdd(again) ==
    /\ history.adds < MaxInsertions
    /\ again => history.clock > 0
    /\ Add(NewQuery(IF again THEN history.clock ELSE history.clock + 1), DictA)
    /\ history' = [history EXCEPT !.adds = @ + 1,
                                  !.clock = IF again THEN @ ELSE @ + 1,
                                  !.saved_at = IF last'.save = "ok" THEN now ELSE @]

InitPeriod ==
    /\ CacheInit(PeriodCaps, {AbsentFile})
    /\ RecogIdle /\ RouterIdle /\ MergeIdle
    /\ AgedInit

NextPeriod ==
    \/ \E again \in BOOLEAN :
         PeriodAdd(again) /\ UNCHANGED <<recogVars, routerVars, lifeVars, merge>>
    \/ /\ now + SaveInterval <= MaxTime
       /\ Tick(SaveInterval)
       /\ UNCHANGED <<recogVars, routerVars, lifeVars, merge, history>>

SpecPeriod == InitPeriod /\ [][NextPeriod]_vars

----------------------------------------------------------------------------
(* IntentCache: a cache built again over the file *)

\* an intent dict with a tool name and two entities
DictE ==
    IntentDict("QUERY", 65, "market",
               <<[type |-> "product", value |-> "kele", confidence |-> 90],
                 [type |-> "time", value |-> "mingtian", confidence |-> 60]>>, "q5 kele")

ReloadCaps == {4}

ReloadAdds == {<<"q1", DictB>>, <<"q4", DictE>>, <<"q5", DictA>>}

\* saves and constructions made in all
MaxSaves == 2
MaxConstructions == 2

\* whether the last save was forced, and the saves and constructions so far
Reloaded(force, saves, constructions) ==
    [force |-> force, saves |-> saves, constructions |-> constructions]

\* IntentCache(cache_file, max_entries) once more, over the file as it is
Construct ==
    /\ history.constructions < MaxConstructions
    /\ LET l == load_cache(<<>>, EmptyIndex, file)
       IN  exact_cache' = l.cache /\ keyword_index' = l.index
    /\ last_save_time' = now
    /\ last' = NoOp("init")
    /\ ret' = <<>>
    /\ history' = [history EXCEPT !.constructions = @ + 1]
    /\ UNCHANGED <<max_entries, now, file>>

ReloadSave(force, outcome) ==
    /\ history.saves < MaxSaves
    /\ Save(force, outcome)
    /\ history' = [history EXCEPT !.force = force, !.saves = @ + 1]

InitReload ==
    /\ CacheInit(ReloadCaps, EnvFiles)
    /\ RecogIdle /\ RouterIdle /\ MergeIdle
    /\ history = Reloaded(FALSE, 0, 0)

NextReload ==
    \/ \E a \in ReloadAdds :
         Add(a[1], a[2]) /\ UNCHANGED <<recogVars, routerVars, lifeVars, merge, history>>
    \/ \E force \in BOOLEAN, outcome \in WriteOutcomes :
         ReloadSave(force, outcome) /\ UNCHANGED <<recogVars, routerVars, lifeVars, merge>>
    \/ Construct /\ UNCHANGED <<recogVars, routerVars, lifeVars, merge>>

SpecReload == InitReload /\ [][NextReload]_vars

----------------------------------------------------------------------------
(* IntentRecognizer: intents *)

\* IntentType, numbered by auto()
CHAT == 1
QUERY == 2
COMMAND == 3
TOOL_SPECIFIC == 4
UNKNOWN == 5

IntentTypes == {CHAT, QUERY, COMMAND, TOOL_SPECIFIC, UNKNOWN}

\* IntentType.name
TypeName(type) ==
    CASE type = CHAT -> "CHAT"
      [] type = QUERY -> "QUERY"
      [] type = COMMAND -> "COMMAND"
      [] type = TOOL_SPECIFIC -> "TOOL_SPECIFIC"
      [] type = UNKNOWN -> "UNKNOWN"

\* IntentType.__members__
MemberNames == {TypeName(type) : type \in IntentTypes}

\* IntentType[name]
TypeOfName(name) == CHOOSE type \in IntentTypes : TypeName(type) = name

\* Entity(entity_type, value, confidence)
Entity(entity_type, value, confidence) ==
    [type |-> entity_type, value |-> value, confidence |-> confidence]

\* Intent(intent_type, confidence, tool_name, entities, raw_query)
Intent(intent_type, confidence, tool_name, entities, raw_query) ==
    [type |-> intent_type, confidence |-> confidence, tool_name |-> tool_name,
     entities |-> entities, raw_query |-> raw_query]

\* Intent.to_dict
to_dict(intent) ==
    IntentDict(TypeName(intent.type), intent.confidence, intent.tool_name,
               intent.entities, intent.raw_query)

\* Intent.from_dict: IntentType[...] raises KeyError on a name that is no member
from_dict_NoEntities(data) ==
    IF data.type \in MemberNames
    THEN [raised |-> FALSE,
          intent |-> <<Intent(TypeOfName(data.type), data.confidence, data.tool_name,
                              <<>>, data.raw_query)>>]
    ELSE [raised |-> TRUE, intent |-> <<>>]

from_dict(data) ==
    IF data.type \in MemberNames
    THEN [raised |-> FALSE,
          intent |-> <<Intent(TypeOfName(data.type), data.confidence, data.tool_name,
                              data.entities, data.raw_query)>>]
    ELSE [raised |-> TRUE, intent |-> <<>>]

----------------------------------------------------------------------------
(* IntentRecognizer: the rules *)

\* TOOL_KEYWORDS, in the order of the dict (tianqi is 天气, qiwen 气温, ...)
TOOL_KEYWORDS ==
    <<[tool |-> "weather",
       keywords |-> <<"tianqi", "qiwen", "xiayu", "wendu", "shidu", "yinqing">>],
      [tool |-> "market",
       keywords |-> <<"shangchang", "shangjia", "dianpu", "gouwu", "maidongxi",
                      "chaoshi", "zhuanmaidian">>],
      [tool |-> "area_search",
       keywords |-> <<"fujin", "zhoubian", "quyu", "difang", "weizhi", "zenmezou",
                      "dizhi">>]>>

\* COMMAND_KEYWORDS
COMMAND_KEYWORDS ==
    <<"shezhi", "genggai", "xiugai", "qiehuan", "baocun", "chongzhi", "qingchu",
      "shanchu">>

\* text.lower()
Lower(text) ==
    CASE text = "w1_OK" -> "w1_ok"
      [] text = "Restaurant" -> "restaurant"
      [] OTHER -> text

\* the rule keywords that are substrings of a text
Substrings(text) ==
    CASE text \in {"w1", "w1b", "w1_OK", "w1_ok"} -> {"tianqi"}
      [] text = "w2" -> {"tianqi", "qiwen"}
      [] text = "w3" -> {"tianqi", "qiwen", "xiayu"}
      [] text = "w1m2" -> {"tianqi", "shangchang", "gouwu"}
      [] text = "cmd" -> {"shezhi"}
      [] OTHER -> {}

\* keyword in text
Occurs(keyword, text) == keyword \in Substrings(text)

\* what the first of location_patterns that matches captures (w1b starts with 在)
LocationMatch(text) ==
    IF text = "w1b" THEN <<"chongqingmingtiantianqizenmeyang">> ELSE <<>>

\* confidence of a tool match: the base, and the cap of the raised one
BaseConfidence == 70
CapConfidence == 90
\* confidence of a command match
CommandConfidence == 65
\* confidence of a location the patterns extract
PatternConfidence == 80

Min(a, b) == IF a < b THEN a ELSE b
Max(a, b) == IF a > b THEN a ELSE b

\* _extract_basic_entities: the entities of the intent after it
extract_basic_entities(text, entities) ==
    IF LocationMatch(text) # <<>>
    THEN Append(entities, Entity("location", LocationMatch(text)[1], PatternConfidence))
    ELSE entities

\* sum(1 for kw in keywords if kw in text)
MatchedKeywords(keywords, text) ==
    Cardinality({j \in DOMAIN keywords : Occurs(keywords[j], text)})

\* mutant of ToolIntent: the raised confidence is not capped
ToolIntent_Uncapped(tool, keywords, text) ==
    LET matched_keywords == Cardinality({j \in DOMAIN keywords : keywords[j] \in Substrings(text)})
        confidence == IF matched_keywords > 1
                      THEN BaseConfidence + 10 * matched_keywords
                      ELSE BaseConfidence
    IN  Intent(TOOL_SPECIFIC, confidence, tool,
               extract_basic_entities(text, <<>>), text)

\* the intent _apply_rules builds for a tool one of whose keywords matched
ToolIntent(tool, keywords, text) ==
    LET matched_keywords == MatchedKeywords(keywords, text)
        confidence == IF matched_keywords > 1
                      THEN Min(CapConfidence, BaseConfidence + 10 * matched_keywords)
                      ELSE BaseConfidence
    IN  Intent(TOOL_SPECIFIC, confidence, tool,
               extract_basic_entities(text, <<>>), text)

RECURSIVE ToolLoop(_, _)
ToolLoop(tools, text) ==
    IF tools = <<>> THEN <<>>
    ELSE IF MatchedKeywords(Head(tools).keywords, text) > 0
         THEN <<ToolIntent(Head(tools).tool, Head(tools).keywords, text)>>
         ELSE ToolLoop(Tail(tools), text)

\* _apply_rules: <<>> is None
apply_rules(original) ==
    LET text == Lower(original)
        tool_intent == ToolLoop(TOOL_KEYWORDS, text)
    IN  IF tool_intent # <<>> THEN tool_intent
        ELSE IF \E j \in DOMAIN COMMAND_KEYWORDS : Occurs(COMMAND_KEYWORDS[j], text)
             THEN <<Intent(COMMAND, CommandConfidence, None, <<>>, text)>>
             ELSE <<>>

----------------------------------------------------------------------------
(* IntentRecognizer: the model and the merge *)

\* confidence of the intents that stand for a failed analysis
FallbackConfidence == 30

\* A response of the model: the call fails ("error") or returns a content, which is
\* None ("none"), text that holds no brace-delimited object ("prose"), an object
\* json.loads rejects ("broken") or an object it parses into `result` ("json").
\* In `result` a confidence of <<>> is a value float() rejects, <<c>> a number.
Result(intent_type, confidence, tool_name, entities) ==
    [intent_type |-> intent_type, confidence |-> confidence, tool_name |-> tool_name,
     entities |-> entities]

NoResult == Result("", <<>>, None, <<>>)

Response(transport, content, result) ==
    [transport |-> transport, content |-> content, result |-> result]

ModelResponses ==
    {Response("error", "none", NoResult),
     Response("ok", "none", NoResult),
     Response("ok", "prose", NoResult),
     Response("ok", "broken", NoResult),
     Response("ok", "json", Result("CHAT", <<>>, "null", <<>>)),
     Response("ok", "json", Result("CHAT", <<70>>, "null", <<>>)),
     Response("ok", "json", Result("SEARCH", <<50>>, "null", <<>>)),
     Response("ok", "json", Result("CHAT", <<150>>, "null", <<>>)),
     Response("ok", "json",
              Result("QUERY", <<90>>, "market",
                     <<Entity("location", "chongqingmingtiantianqizenmeyang", 90),
                       Entity("time", "mingtian", 60)>>))}

\* _parse_model_result with its handler
parse_model_result(result, raw_query) ==
    IF result.confidence = <<>>
    THEN Intent(UNKNOWN, FallbackConfidence, None, <<>>, raw_query)
    ELSE Intent(IF result.intent_type \in MemberNames
                THEN TypeOfName(result.intent_type) ELSE UNKNOWN,
                result.confidence[1],
                IF result.tool_name # "null" THEN result.tool_name ELSE None,
                result.entities, raw_query)

\* the try block of _analyze_with_model: what it returns, or that it raised
AnalyzeBody(response, user_input) ==
    IF response.transport = "error" \/ response.content \in {"none", "broken"}
    THEN [raised |-> TRUE, intent |-> <<>>]
    ELSE IF response.content = "json"
         THEN [raised |-> FALSE,
               intent |-> <<parse_model_result(response.result, user_input)>>]
         ELSE [raised |-> FALSE,
               intent |-> <<Intent(UNKNOWN, FallbackConfidence, None, <<>>, user_input)>>]

\* what the handler of _analyze_with_model makes of an exception
OnAnalyzeError_Reraises(user_input) == [raised |-> TRUE, intent |-> <<>>]

OnAnalyzeError(user_input) ==
    [raised |-> FALSE,
     intent |-> <<Intent(CHAT, FallbackConfidence, None, <<>>, user_input)>>]

\* _analyze_with_model, from the response of the model on
analyze_with_model(response, user_input) ==
    LET body == AnalyzeBody(response, user_input)
    IN  IF body.raised THEN OnAnalyzeError(user_input) ELSE body

\* the confidence above which the rule's tool is kept against the model's
ToolConfidence == 70

\* f"{entity.type}:{entity.value}"
EntityKey(entity) == entity.type \o ":" \o entity.value

\* entity_map after one more entity: a list of entities in the order of their keys
MapEntity(entity_map, entity) ==
    IF \E j \in DOMAIN entity_map : EntityKey(entity_map[j]) = EntityKey(entity)
    THEN [j \in DOMAIN entity_map |->
            IF EntityKey(entity_map[j]) = EntityKey(entity)
               /\ entity.confidence > entity_map[j].confidence
            THEN entity ELSE entity_map[j]]
    ELSE Append(entity_map, entity)

RECURSIVE MapEntities(_, _)
MapEntities(entity_map, entities) ==
    IF entities = <<>> THEN entity_map
    ELSE MapEntities(MapEntity(entity_map, Head(entities)), Tail(entities))

\* the kind _merge_intents chooses
MergedType_TieToRule(rule_intent, model_intent) ==
    IF rule_intent.confidence >= model_intent.confidence
    THEN rule_intent.type ELSE model_intent.type

MergedType(rule_intent, model_intent) ==
    IF rule_intent.confidence > model_intent.confidence
    THEN rule_intent.type ELSE model_intent.type

\* _merge_intents: the tool of the merged intent
MergedTool_ByConfidence(rule_intent, model_intent) ==
    IF rule_intent.tool_name # None /\ model_intent.tool_name # None
    THEN IF rule_intent.confidence > model_intent.confidence
         THEN rule_intent.tool_name ELSE model_intent.tool_name
    ELSE IF rule_intent.tool_name # None
         THEN rule_intent.tool_name ELSE model_intent.tool_name

MergedTool(rule_intent, model_intent) ==
    IF rule_intent.tool_name # None /\ model_intent.tool_name # None
    THEN IF rule_intent.confidence > ToolConfidence
         THEN rule_intent.tool_name ELSE model_intent.tool_name
    ELSE IF rule_intent.tool_name # None
         THEN rule_intent.tool_name ELSE model_intent.tool_name

\* _merge_intents
merge_intents(rule_intent, model_intent) ==
        Intent(MergedType(rule_intent, model_intent),
               Max(rule_intent.confidence, model_intent.confidence),
               MergedTool(rule_intent, model_intent),
               MapEntities(<<>>, rule_intent.entities \o model_intent.entities),
               rule_intent.raw_query)

----------------------------------------------------------------------------
(* IntentRecognizer: recognize *)

\* the recognize calls: one caller
Tasks == {1}

\* calls each caller makes
MaxCalls == 2

\* threshold of lookup(query)
DefaultThreshold == <<7, 10>>

\* the rule confidence above which recognize returns the rule intent
DirectConfidence == 80

RuleIsCertain_AtBase(rule_intent) ==
    rule_intent # <<>> /\ rule_intent[1].confidence >= BaseConfidence

\* rule_intent and rule_intent.confidence > 0.8
RuleIsCertain(rule_intent) ==
    rule_intent # <<>> /\ rule_intent[1].confidence > DirectConfidence

\* a caller: where its call of recognize(text) is ("idle" before the first call,
\* "awaiting" at the await of the model, "done" once it returned or raised), what
\* the call computed (its rule intent, the model's response and the intent analysed
\* from it, what it returned or that it raised), and how often it called the model
Task(pc, calls, text, hit, rule, response, model, result, raised, model_calls) ==
    [pc |-> pc, calls |-> calls, text |-> text, hit |-> hit, rule |-> rule,
     response |-> response, model |-> model, result |-> result, raised |-> raised,
     model_calls |-> model_calls]

\* IntentRecognizer(llm, state_manager, use_cache), the cache file absent or holding
\* an entry of w2, or one of w1 with an entity
RecogFiles ==
    {AbsentFile, OkFile(<<[q |-> "w2", i |-> DictA]>>),
     OkFile(<<[q |-> "w1",
               i |-> IntentDict("TOOL_SPECIFIC", 90, "weather",
                                <<Entity("location", "cq", 80)>>, "w1")]>>)}

RecogInit ==
    /\ use_cache \in BOOLEAN
    /\ tasks = [t \in Tasks |-> Task("idle", 0, "", FALSE, <<>>, <<>>, <<>>, <<>>, FALSE, 0)]

\* recognize(text) up to its return, or to the await of the model's response
Recognize(t, text, order) ==
    /\ tasks[t].pc \in {"idle", "done"}
    /\ tasks[t].calls < MaxCalls
    /\ LET calls == tasks[t].calls + 1
           cached_intent == IF use_cache
                            THEN lookup(exact_cache, keyword_index, text,
                                        DefaultThreshold, order)
                            ELSE <<>>
           rule_intent == apply_rules(text)
       IN  IF cached_intent # <<>>
           THEN LET f == from_dict(cached_intent[1])
                IN  /\ Lookup(text, DefaultThreshold, order)
                    /\ tasks' = [tasks EXCEPT ![t] =
                                   Task("done", calls, text, TRUE, <<>>, <<>>, <<>>,
                                        f.intent, f.raised, 0)]
           ELSE IF RuleIsCertain(rule_intent)
                THEN /\ IF use_cache
                        THEN Add(text, to_dict(rule_intent[1]))
                        ELSE UNCHANGED <<cacheVars, last, ret>>
                     /\ tasks' = [tasks EXCEPT ![t] =
                                    Task("done", calls, text, FALSE, rule_intent, <<>>,
                                         <<>>, rule_intent, FALSE, 0)]
                ELSE /\ IF use_cache
                        THEN Lookup(text, DefaultThreshold, order)
                        ELSE UNCHANGED <<cacheVars, last, ret>>
                     /\ tasks' = [tasks EXCEPT ![t] =
                                    Task("awaiting", calls, text, FALSE, rule_intent,
                                         <<>>, <<>>, <<>>, FALSE, 1)]
    /\ UNCHANGED use_cache

\* recognize from the model's response on: the analysis, the merge, the cache
ModelReturns(t, response) ==
    /\ tasks[t].pc = "awaiting"
    /\ LET text == tasks[t].text
           analysis == analyze_with_model(response, text)
       IN  IF analysis.raised
           THEN /\ tasks' = [tasks EXCEPT ![t].pc = "done",
                                             ![t].response = <<response>>,
                                             ![t].raised = TRUE]
                /\ UNCHANGED <<cacheVars, last, ret>>
           ELSE LET model_intent == analysis.intent[1]
                    rule_intent == IF tasks[t].rule # <<>> THEN tasks[t].rule[1]
                                   ELSE Intent(UNKNOWN, 0, None, <<>>, text)
                    final_intent == merge_intents(rule_intent, model_intent)
                IN  /\ IF use_cache
                       THEN Add(text, to_dict(final_intent))
                       ELSE UNCHANGED <<cacheVars, last, ret>>
                    /\ tasks' = [tasks EXCEPT ![t].pc = "done",
                                              ![t].response = <<response>>,
                                              ![t].model = <<model_intent>>,
                                              ![t].result = <<final_intent>>]
    /\ UNCHANGED use_cache

\* the recognizer over its cache
InitRecog == CacheInit({DefaultMaxEntries}, RecogFiles) /\ RecogInit /\ RouterIdle /\ MergeIdle /\ HistoryIdle

NextRecog ==
    \/ \E t \in Tasks, text \in Texts, order \in SetOrders :
         Recognize(t, text, order) /\ UNCHANGED <<routerVars, lifeVars, merge, history>>
    \/ \E t \in Tasks, response \in ModelResponses :
         ModelReturns(t, response) /\ UNCHANGED <<routerVars, lifeVars, merge, history>>

SpecRecog == InitRecog /\ [][NextRecog]_vars

(* IntentRecognizer: callers in flight together *)

\* the coroutines of recognize that one event loop runs
Racers == {1, 2}

\* the texts they ask for and the responses of the model
RaceTexts == {"w1", "chat"}

RaceResponses ==
    {Response("error", "none", NoResult),
     Response("ok", "json", Result("CHAT", <<70>>, "null", <<>>))}

\* the calls of _analyze_with_model made so far for each text
Invoked(counts) == [invoked |-> counts]

RaceInit ==
    /\ use_cache = TRUE
    /\ tasks = [t \in Racers |-> Task("idle", 0, "", FALSE, <<>>, <<>>, <<>>, <<>>, FALSE, 0)]
    /\ history = Invoked([text \in RaceTexts |-> 0])

\* recognize(text) by caller t, counted when it reaches the call of the model
RaceRecognize(t, text, order) ==
    /\ Recognize(t, text, order)
    /\ history' = IF tasks'[t].pc = "awaiting"
                  THEN Invoked([history.invoked EXCEPT ![text] = @ + 1])
                  ELSE history

\* caller t resumed with the model's response
RaceModelReturns(t, response) ==
    /\ ModelReturns(t, response)
    /\ UNCHANGED history

InitRace ==
    CacheInit({DefaultMaxEntries}, {AbsentFile}) /\ RaceInit /\ RouterIdle /\ MergeIdle

NextRace ==
    \/ \E t \in Racers, text \in RaceTexts, order \in SetOrders :
         RaceRecognize(t, text, order) /\ UNCHANGED <<routerVars, lifeVars, merge>>
    \/ \E t \in Racers, response \in RaceResponses :
         RaceModelReturns(t, response) /\ UNCHANGED <<routerVars, lifeVars, merge>>

SpecRace == InitRace /\ [][NextRace]_vars

----------------------------------------------------------------------------
(* ToolRouter *)

\* route calls made
MaxRoutes == 2

\* ToolStatus
SUCCESS == "success"
ERROR == "error"
NOT_FOUND == "not_found"

\* ToolResult(status, data, message)
ToolResult(status, data, message) ==
    [status |-> status, data |-> data, message |-> message]

\* tool_mapping: the registered tools with their script and methods, in order
tool_mapping ==
    <<[tool |-> "weather", script |-> "weatherMCP.py",
       methods |-> <<"query_weather">>],
      [tool |-> "market", script |-> "marketMCP.py",
       methods |-> <<"find_product", "list_category">>],
      [tool |-> "area_search", script |-> "areaSearchMCP.py",
       methods |-> <<"search_nearby", "search_nearby_food", "search_nearby_shopping",
                     "search_nearby_entertainment">>]>>

\* the keys of tool_mapping
Registered == {tool_mapping[j].tool : j \in DOMAIN tool_mapping}

\* tool_mapping[tool_name]
ToolInfo(tool_name) ==
    tool_mapping[CHOOSE j \in DOMAIN tool_mapping : tool_mapping[j].tool = tool_name]

\* GlobalContext(): its location (重庆市永川区) and venue
GlobalContext == [location |-> "cq_shi_yc_qu", venue |-> "shidaitianjie"]

\* locations set_context stores: none, 北京市, and a place no table knows
Locations == {"", "bj_shi", "mars"}

\* a dict after d[key] = value
SetItem(d, key, value) == (key :> value) @@ d

\* the intents route is called with; their texts are r_plain (no word of any rule
\* of the router) and r_shop (holds 购物)
RouteIntents ==
    {Intent(TOOL_SPECIFIC, 90, "weather", <<>>, "r_plain"),
     Intent(TOOL_SPECIFIC, 90, "weather", <<Entity("location", "bj_shi", 80)>>, "r_plain"),
     Intent(TOOL_SPECIFIC, 70, "weather", <<Entity("time", "mingtian", 60),
                                             Entity("city", "mars", 60)>>, "r_plain"),
     Intent(QUERY, 90, "market", <<Entity("category", "yinliao", 90)>>, "r_plain"),
     Intent(QUERY, 90, "market", <<Entity("product", "kele", 90)>>, "r_shop"),
     Intent(TOOL_SPECIFIC, 70, "area_search",
            <<Entity("poi_type", "Restaurant", 80), Entity("radius", "500", 80)>>,
            "r_plain"),
     Intent(TOOL_SPECIFIC, 70, "area_search", <<Entity("radius", "far", 80)>>, "r_shop"),
     Intent(TOOL_SPECIFIC, 70, "weather", <<Entity("city", "bj_shi", 60)>>, "r_plain"),
     Intent(TOOL_SPECIFIC, 70, "area_search", <<Entity("poi_type", "shopping", 80)>>,
            "r_food"),
     Intent(TOOL_SPECIFIC, 70, "area_search", <<Entity("poi_type", "entertainment", 80)>>,
            "r_shop"),
     Intent(TOOL_SPECIFIC, 70, "area_search", <<Entity("poi_type", "shopping", 80)>>,
            "r_plain"),
     Intent(QUERY, 50, "calendar", <<>>, "r_plain"),
     Intent(CHAT, 50, None, <<>>, "r_plain")}

\* the words of the router's rules that a text holds
RouterWords(text) ==
    CASE text = "r_shop" -> {"gouwu"}
      [] text = "r_food" -> {"shi"}
      [] OTHER -> {}

\* _extract_params_from_intent: the loop over the entities
RECURSIVE EntityParams(_, _)
EntityParams(params, entities) ==
    IF entities = <<>> THEN params
    ELSE EntityParams(SetItem(params, Head(entities).type, Head(entities).value),
                      Tail(entities))

\* _extract_params_from_intent
extract_params_from_intent(intent, sm, ctx) ==
    LET params == EntityParams(<<>>, intent.entities)
        with_location ==
            IF sm /\ intent.tool_name = "weather" /\ "location" \notin DOMAIN params
                  /\ ctx.location # ""
            THEN SetItem(params, "location", ctx.location) ELSE params
    IN  IF sm /\ intent.tool_name = "area_search"
              /\ "venue" \notin DOMAIN with_location /\ ctx.venue # ""
        THEN SetItem(with_location, "venue", ctx.venue) ELSE with_location

\* the location with the suffixes 市, 区, 县, 镇, 省 taken out
Cleaned(location) ==
    CASE location = "cq_shi_yc_qu" -> "cq_yc"
      [] location = "bj_shi" -> "bj"
      [] OTHER -> location

\* location_mapping, its first entries in order
location_mapping ==
    <<[name |-> "cq", city |-> "Chongqing"],
      [name |-> "yc", city |-> "Yongchuan"],
      [name |-> "bj", city |-> "Beijing"]>>

\* city_name in location
Within(city_name, location) ==
    \/ city_name = location
    \/ city_name = "cq" /\ location \in {"cq_shi_yc_qu", "cq_yc"}
    \/ city_name = "yc" /\ location \in {"cq_shi_yc_qu", "cq_yc"}
    \/ city_name = "bj" /\ location = "bj_shi"

\* the city of the first name of location_mapping that satisfies `test`
RECURSIVE FirstCity(_, _, _)
FirstCity(mapping, location, exact) ==
    IF mapping = <<>> THEN <<>>
    ELSE IF IF exact THEN Head(mapping).name = location
            ELSE Within(Head(mapping).name, location)
                 \/ Within(Head(mapping).name, Cleaned(location))
         THEN <<Head(mapping).city>>
         ELSE FirstCity(Tail(mapping), location, exact)

\* the city _map_weather_params makes of a location
CityOf(location) ==
    IF FirstCity(location_mapping, location, TRUE) # <<>>
    THEN FirstCity(location_mapping, location, TRUE)[1]
    ELSE IF FirstCity(location_mapping, Cleaned(location), TRUE) # <<>>
         THEN FirstCity(location_mapping, Cleaned(location), TRUE)[1]
         ELSE IF FirstCity(location_mapping, location, FALSE) # <<>>
              THEN FirstCity(location_mapping, location, FALSE)[1]
              ELSE "Chongqing"

\* the value of the first entity whose type is location, city or place
RECURSIVE LocationEntity(_)
LocationEntity(entities) ==
    IF entities = <<>> THEN <<>>
    ELSE IF Lower(Head(entities).type) \in {"location", "city", "place"}
         THEN <<Head(entities).value>>
         ELSE LocationEntity(Tail(entities))

\* getattr(self.state_manager, "context", {}).get("location", ""): the context is a
\* GlobalContext, a dataclass, which has no attribute `get`
ContextGet(ctx) == [raised |-> <<"AttributeError">>, value |-> ""]

\* _map_weather_params: the exception it raises, or the params it returns
map_weather_params(intent, raw_params, sm, ctx) ==
    LET found ==
            IF "location" \in DOMAIN raw_params
            THEN [raised |-> <<>>, value |-> raw_params["location"]]
            ELSE IF intent.entities # <<>>
                 THEN [raised |-> <<>>,
                       value |-> IF LocationEntity(intent.entities) # <<>>
                                 THEN LocationEntity(intent.entities)[1] ELSE ""]
                 ELSE IF sm THEN ContextGet(ctx)
                      ELSE [raised |-> <<>>, value |-> ""]
        location == IF found.value = "" THEN "cq" ELSE found.value
    IN  IF found.raised # <<>>
        THEN [raised |-> found.raised, params |-> <<>>]
        ELSE [raised |-> <<>>, params |-> SetItem(<<>>, "city", CityOf(location))]

\* _map_market_params
map_market_params(intent, raw_params) ==
    SetItem(<<>>, "query",
            IF "product" \in DOMAIN raw_params
            THEN raw_params["product"] ELSE intent.raw_query)

\* _map_market_category_params
map_market_category_params(intent, raw_params) ==
    SetItem(<<>>, "category",
            IF "category" \in DOMAIN raw_params
            THEN raw_params["category"] ELSE "yinliao")

\* type_mapping
TypeCode(poi_type) ==
    CASE poi_type = "restaurant" -> <<"050000">>
      [] poi_type = "shopping" -> <<"060000">>
      [] poi_type = "entertainment" -> <<"080000">>
      [] OTHER -> <<>>

\* int(text): <<>> when it raises ValueError
ParseInt(text) == IF text = "500" THEN <<500>> ELSE <<>>

\* the default radius
DefaultRadius == 3000

\* _map_area_search_params
map_area_search_params(intent, raw_params) ==
    LET p1 == SetItem(<<>>, "radius", DefaultRadius)
        p2 == IF "query" \in DOMAIN raw_params
              THEN SetItem(p1, "keyword", raw_params["query"]) ELSE p1
        p3 == IF "poi_type" \in DOMAIN raw_params
                 /\ TypeCode(raw_params["poi_type"]) # <<>>
              THEN SetItem(p2, "type_code", TypeCode(raw_params["poi_type"])[1])
              ELSE p2
    IN  IF "radius" \in DOMAIN raw_params /\ ParseInt(raw_params["radius"]) # <<>>
        THEN SetItem(p3, "radius", ParseInt(raw_params["radius"])[1])
        ELSE p3

\* the method _select_method_and_params chooses for area_search
AreaMethod(poi_type, raw_query) ==
    IF poi_type = "restaurant" \/ "shi" \in RouterWords(raw_query)
    THEN "search_nearby_food"
    ELSE IF poi_type = "shopping" \/ "gouwu" \in RouterWords(raw_query)
         THEN "search_nearby_shopping"
         ELSE IF poi_type = "entertainment" \/ "yule" \in RouterWords(raw_query)
              THEN "search_nearby_entertainment"
              ELSE "search_nearby"

\* _select_method_and_params, for a registered tool: the exception it raises, or the
\* method and the params it returns
select_method_and_params(intent, tool_name, sm, ctx) ==
    LET raw_params == extract_params_from_intent(intent, sm, ctx)
    IN  CASE tool_name = "weather" ->
               LET w == map_weather_params(intent, raw_params, sm, ctx)
               IN  [raised |-> w.raised, method_name |-> "query_weather",
                    params |-> w.params]
          [] tool_name = "market" ->
               IF "category" \in DOMAIN raw_params
               THEN [raised |-> <<>>, method_name |-> "list_category",
                     params |-> map_market_category_params(intent, raw_params)]
               ELSE [raised |-> <<>>, method_name |-> "find_product",
                     params |-> map_market_params(intent, raw_params)]
          [] tool_name = "area_search" ->
               [raised |-> <<>>,
                method_name |->
                    AreaMethod(IF "poi_type" \in DOMAIN raw_params
                               THEN Lower(raw_params["poi_type"]) ELSE "",
                               intent.raw_query),
                params |-> map_area_search_params(intent, raw_params)]
          [] OTHER ->
               [raised |-> <<>>, method_name |-> ToolInfo(tool_name).methods[1],
                params |-> raw_params]

\* how a connection attempt ends: at the script check, at the spawn of the process,
\* at the entry of the session, at the handshake, at the listing, or with the tool
\* advertising all the methods tool_mapping has for it, or all but the first
ConnectOutcomes ==
    {[stage |-> stage, all |-> FALSE] :
        stage \in {"no_script", "spawn_fails", "session_fails", "initialize_fails",
                   "list_fails"}}
    \cup {[stage |-> "ok", all |-> all] : all \in BOOLEAN}

\* response.tools
Advertised(tool_name, outcome) ==
    IF outcome.all THEN ToolInfo(tool_name).methods
    ELSE Tail(ToolInfo(tool_name).methods)

\* whether _connect_to_tool raises the exception its try block ended with
ConnectRaises_Uncaught(stage) ==
    stage \in {"spawn_fails", "session_fails", "initialize_fails", "list_fails"}

ConnectRaises(stage) == FALSE

\* _connect_to_tool: the exit stack and the sessions after it, and whether it raised
connect_to_tool(tool_name, outcome, stack, sess) ==
    LET transport == [kind |-> "transport", tool |-> tool_name]
        session == [kind |-> "session", tool |-> tool_name]
        raised == ConnectRaises(outcome.stage)
    IN  CASE outcome.stage \in {"no_script", "spawn_fails"} ->
               [exit_stack |-> stack, sessions |-> sess, raised |-> raised]
          [] outcome.stage = "session_fails" ->
               [exit_stack |-> Append(stack, transport), sessions |-> sess,
                raised |-> raised]
          [] outcome.stage \in {"initialize_fails", "list_fails"} ->
               [exit_stack |-> stack \o <<transport, session>>, sessions |-> sess,
                raised |-> raised]
          [] OTHER ->
               [exit_stack |-> stack \o <<transport, session>>,
                sessions |-> SetItem(sess, tool_name,
                                     [tools |-> Advertised(tool_name, outcome)]),
                raised |-> FALSE]

\* how session.call_tool ends: with a text content, with no content, or raising
CallOutcomes == {"text", "empty", "raises"}

\* the call of execute_tool_async: where it is ("idle" before the first call,
\* "connecting" at the await of _connect_to_tool, "calling" at the await of
\* call_tool, "done" once it returned or raised), its intent, the method and params
\* selected, the ToolResult returned or the exception raised, and the connection
\* attempts and invocations it made
Route(pc, calls, intent, method_name, params, result, raised, connects, invocations) ==
    [pc |-> pc, calls |-> calls, intent |-> intent, method_name |-> method_name,
     params |-> params, result |-> result, raised |-> raised, connects |-> connects,
     invocations |-> invocations]

\* the call of initialize: where it is ("connecting" at the await of
\* _connect_to_tool for the tool number `tool` of tool_mapping), whether each
\* connection it attempted so far succeeded, and whether it raised
Initialize(pc, calls, tool, attempts, raised) ==
    [pc |-> pc, calls |-> calls, tool |-> tool, attempts |-> attempts,
     raised |-> raised]

\* the call of cleanup: where it is ("closing" inside exit_stack.aclose()), the exit
\* stack it started with, the contexts whose exit it called so far, whether one of
\* the exits failed, whether it raised, and how many contexts were still on the
\* stack when it ended
Cleanup(pc, calls, start, attempted, failed, raised, left) ==
    [pc |-> pc, calls |-> calls, start |-> start, attempted |-> attempted,
     failed |-> failed, raised |-> raised, left |-> left]

\* ToolRouter(state_manager) beside a new StateManager
RouterInit ==
    /\ state_manager \in BOOLEAN
    /\ context = GlobalContext
    /\ sessions = <<>>
    /\ exit_stack = <<>>
    /\ route = Route("idle", 0, <<>>, "", <<>>, <<>>, <<>>, 0, 0)
    /\ initialize = Initialize("idle", 0, 0, <<>>, FALSE)
    /\ cleanup = Cleanup("idle", 0, <<>>, <<>>, FALSE, FALSE, 0)

\* StateManager.set_context("location", location)
SetContext(location) ==
    /\ state_manager
    /\ context' = [context EXCEPT !.location = location]
    /\ UNCHANGED <<state_manager, sessions, exit_stack, route>>

\* [tool.name for tool in available_tools]
available_method_names_Registered(sess, tool_name) == Range(ToolInfo(tool_name).methods)

available_method_names(sess, tool_name) == Range(sess[tool_name].tools)

\* execute_tool_async from the session on (lines 174-195): up to the await of
\* call_tool, to the return of the ERROR result, or to the exception
WithSession(calls, intent, sess, connects) ==
    LET tool_name == intent.tool_name
        selected == select_method_and_params(intent, tool_name, state_manager, context)
    IN  IF selected.raised # <<>>
        THEN Route("done", calls, <<intent>>, "", <<>>, <<>>, selected.raised,
                   connects, 0)
        ELSE IF selected.method_name \notin available_method_names(sess, tool_name)
             THEN Route("done", calls, <<intent>>, selected.method_name,
                        selected.params,
                        <<ToolResult(ERROR, "",
                                     "unsupported method: " \o tool_name \o "."
                                         \o selected.method_name)>>,
                        <<>>, connects, 0)
             ELSE Route("calling", calls, <<intent>>, selected.method_name,
                        selected.params, <<>>, <<>>, connects, 0 + 1)

\* execute_tool_async for a tool that is not in tool_mapping
Unregistered_Connects(calls, intent) ==
    Route("connecting", calls, <<intent>>, "", <<>>, <<>>, <<>>, 1, 0)

Unregistered(calls, intent) ==
    Route("done", calls, <<intent>>, "", <<>>,
          <<ToolResult(NOT_FOUND, "", "unknown tool: " \o intent.tool_name)>>,
          <<>>, 0, 0)

\* execute_tool_async when the tool has no session after _connect_to_tool
ConnectFailed_Retries(calls, intent, connects) ==
    Route("connecting", calls, <<intent>>, "", <<>>, <<>>, <<>>, connects + 1, 0)

ConnectFailed(calls, intent, connects) ==
    Route("done", calls, <<intent>>, "", <<>>,
          <<ToolResult(ERROR, "", "cannot connect: " \o intent.tool_name)>>,
          <<>>, connects, 0)

\* execute_tool_async(intent) up to its first await or its return
Execute(intent) ==
    /\ route.pc \in {"idle", "done"}
    /\ route.calls < MaxRoutes
    /\ LET calls == route.calls + 1
           tool_name == intent.tool_name
       IN  route' =
             IF tool_name \notin Registered
             THEN Unregistered(calls, intent)
             ELSE IF tool_name \notin DOMAIN sessions
                  THEN Route("connecting", calls, <<intent>>, "", <<>>, <<>>, <<>>,
                             0 + 1, 0)
                  ELSE WithSession(calls, intent, sessions, 0)
    /\ UNCHANGED <<state_manager, context, sessions, exit_stack>>

\* execute_tool_async from the return of _connect_to_tool on
ConnectReturns(outcome) ==
    /\ route.pc = "connecting"
    /\ LET intent == route.intent[1]
           tool_name == intent.tool_name
           c == connect_to_tool(tool_name, outcome, exit_stack, sessions)
       IN  /\ exit_stack' = c.exit_stack
           /\ sessions' = c.sessions
           /\ route' =
                IF c.raised
                THEN Route("done", route.calls, route.intent, "", <<>>, <<>>,
                           <<"Exception">>, route.connects, 0)
                ELSE IF tool_name \notin DOMAIN c.sessions
                     THEN ConnectFailed(route.calls, intent, route.connects)
                     ELSE WithSession(route.calls, intent, c.sessions, route.connects)
    /\ UNCHANGED <<state_manager, context>>

\* execute_tool_async when call_tool raised
CallRaised_Retries(r) == [r EXCEPT !.invocations = @ + 1]

CallRaised(r) ==
    [r EXCEPT !.pc = "done",
              !.result = <<ToolResult(ERROR, "", "tool error: " \o "boom")>>]

\* execute_tool_async from the return of call_tool on
CallReturns(outcome) ==
    /\ route.pc = "calling"
    /\ route' =
         CASE outcome = "text" ->
                [route EXCEPT
                   !.pc = "done",
                   !.result = <<ToolResult(SUCCESS, "payload", "tool executed")>>]
           [] outcome = "empty" ->
                [route EXCEPT
                   !.pc = "done",
                   !.result = <<ToolResult(SUCCESS, "", "tool executed")>>]
           [] OTHER -> CallRaised(route)
    /\ UNCHANGED <<state_manager, context, sessions, exit_stack>>

\* the router under route calls, the context changing between them
InitRouter ==
    CacheInit({DefaultMaxEntries}, {AbsentFile}) /\ RecogIdle /\ MergeIdle /\ HistoryIdle /\ RouterInit

NextRouter ==
    \/ \E location \in Locations :
         SetContext(location) /\ UNCHANGED <<cacheVars, last, ret, recogVars, lifeVars, merge, history>>
    \/ \E intent \in RouteIntents :
         Execute(intent) /\ UNCHANGED <<cacheVars, last, ret, recogVars, lifeVars, merge, history>>
    \/ \E outcome \in ConnectOutcomes :
         ConnectReturns(outcome) /\ UNCHANGED <<cacheVars, last, ret, recogVars, lifeVars, merge, history>>
    \/ \E outcome \in CallOutcomes :
         CallReturns(outcome) /\ UNCHANGED <<cacheVars, last, ret, recogVars, lifeVars, merge, history>>

SpecRouter == InitRouter /\ [][NextRouter]_vars

----------------------------------------------------------------------------
(* ToolRouter: initialize and cleanup *)

\* calls of initialize, of route and of cleanup when they interleave
MaxInits == 2
MaxSessionRoutes == 2
MaxCleanups == 1

\* the intents route is called with beside initialize and cleanup
SessionIntents ==
    {Intent(TOOL_SPECIFIC, 90, "weather", <<Entity("location", "bj_shi", 80)>>, "r_plain"),
     Intent(QUERY, 90, "market", <<Entity("category", "yinliao", 90)>>, "r_plain")}

\* how the calls of a tool's method end
SessionCallOutcomes == {"text", "raises"}

\* how the connection attempts end beside initialize and cleanup: at the listing,
\* after the process was spawned and the session entered, or with all the methods
InitOutcomes ==
    {o \in ConnectOutcomes : o.stage = "list_fails" \/ (o.stage = "ok" /\ o.all)}

\* initialize() up to its first await of _connect_to_tool
InitializeStart ==
    /\ initialize.pc \in {"idle", "done"}
    /\ initialize.calls < MaxInits
    /\ initialize' = Initialize("connecting", initialize.calls + 1, 1, <<>>, FALSE)
    /\ UNCHANGED <<routerVars, cleanup>>

\* initialize() from the return of one _connect_to_tool to the await of the next,
\* or to its return
InitializeConnect(outcome) ==
    /\ initialize.pc = "connecting"
    /\ LET tool_name == tool_mapping[initialize.tool].tool
           c == connect_to_tool(tool_name, outcome, exit_stack, sessions)
           attempts == Append(initialize.attempts, outcome.stage = "ok")
       IN  /\ exit_stack' = c.exit_stack
           /\ sessions' = c.sessions
           /\ initialize' =
                IF c.raised
                THEN Initialize("done", initialize.calls, initialize.tool, attempts, TRUE)
                ELSE IF initialize.tool = Len(tool_mapping)
                     THEN Initialize("done", initialize.calls, initialize.tool,
                                     attempts, FALSE)
                     ELSE Initialize("connecting", initialize.calls,
                                     initialize.tool + 1, attempts, FALSE)
    /\ UNCHANGED <<state_manager, context, route, cleanup>>

\* whether exit_stack.aclose() goes on to the next context after an exit that
\* failed or not: it keeps the exception and goes on
CloseGoesOn_UntilFailure(fails) == ~fails

CloseGoesOn(fails) == TRUE

\* cleanup() up to the first exit of a context
CleanupStart ==
    /\ cleanup.pc \in {"idle", "done"}
    /\ cleanup.calls < MaxCleanups
    /\ cleanup' = Cleanup("closing", cleanup.calls + 1, exit_stack, <<>>, FALSE, FALSE, 0)
    /\ UNCHANGED <<routerVars, initialize>>

\* exit_stack.aclose(): the exit of the context entered last, which fails or not
CleanupClose(fails) ==
    /\ cleanup.pc = "closing"
    /\ exit_stack # <<>>
    /\ exit_stack' = SubSeq(exit_stack, 1, Len(exit_stack) - 1)
    /\ cleanup' =
         IF CloseGoesOn(fails)
         THEN [cleanup EXCEPT
                 !.attempted = Append(@, exit_stack[Len(exit_stack)]),
                 !.failed = @ \/ fails]
         ELSE [cleanup EXCEPT
                 !.pc = "done",
                 !.attempted = Append(@, exit_stack[Len(exit_stack)]),
                 !.failed = TRUE, !.raised = TRUE,
                 !.left = Len(exit_stack) - 1]
    /\ UNCHANGED <<state_manager, context, sessions, route, initialize>>

\* exit_stack.aclose() with no context left: cleanup returns, or raises the
\* exception of the exit that failed last
CleanupReturns ==
    /\ cleanup.pc = "closing"
    /\ exit_stack = <<>>
    /\ cleanup' = [cleanup EXCEPT !.pc = "done", !.raised = cleanup.failed, !.left = 0]
    /\ UNCHANGED <<routerVars, initialize>>

\* the router under initialize and route calls that interleave at their awaits
InitSessions ==
    /\ CacheInit({DefaultMaxEntries}, {AbsentFile}) /\ RecogIdle /\ MergeIdle /\ HistoryIdle
    /\ RouterInit /\ state_manager = FALSE

NextSessions ==
    \/ InitializeStart /\ UNCHANGED <<cacheVars, last, ret, recogVars, merge, history>>
    \/ \E outcome \in InitOutcomes :
         InitializeConnect(outcome) /\ UNCHANGED <<cacheVars, last, ret, recogVars, merge, history>>
    \/ \E intent \in SessionIntents :
         route.calls < MaxSessionRoutes /\ Execute(intent) /\ UNCHANGED <<cacheVars, last, ret, recogVars, lifeVars, merge, history>>
    \/ \E outcome \in InitOutcomes :
         ConnectReturns(outcome)
         /\ UNCHANGED <<cacheVars, last, ret, recogVars, lifeVars, merge, history>>
    \/ \E outcome \in SessionCallOutcomes :
         CallReturns(outcome)
         /\ UNCHANGED <<cacheVars, last, ret, recogVars, lifeVars, merge, history>>

\* the router under route and cleanup calls that interleave at their awaits
NextCleanup ==
    \/ \E intent \in SessionIntents :
         route.calls < MaxSessionRoutes /\ Execute(intent) /\ UNCHANGED <<cacheVars, last, ret, recogVars, lifeVars, merge, history>>
    \/ \E outcome \in InitOutcomes :
         ConnectReturns(outcome)
         /\ UNCHANGED <<cacheVars, last, ret, recogVars, lifeVars, merge, history>>
    \/ \E outcome \in SessionCallOutcomes :
         CallReturns(outcome)
         /\ UNCHANGED <<cacheVars, last, ret, recogVars, lifeVars, merge, history>>
    \/ CleanupStart /\ UNCHANGED <<cacheVars, last, ret, recogVars, merge, history>>
    \/ \E fails \in BOOLEAN :
         CleanupClose(fails) /\ UNCHANGED <<cacheVars, last, ret, recogVars, merge, history>>
    \/ CleanupReturns /\ UNCHANGED <<cacheVars, last, ret, recogVars, merge, history>>

SpecCleanup == InitSessions /\ [][NextCleanup]_vars

SpecSessions == InitSessions /\ [][NextSessions]_vars

----------------------------------------------------------------------------
(* The recognizer or the router, each on its own *)

\* there is a recognizer, there is a router
HasRecognizer == DOMAIN tasks # {}
HasRouter == DOMAIN route # {}

InitCalls == InitRecog \/ InitRouter

NextCalls ==
    \/ HasRecognizer /\ NextRecog
    \/ HasRouter /\ NextRouter

SpecCalls == InitCalls /\ [][NextCalls]_vars

----------------------------------------------------------------------------
(* IntentRecognizer: _merge_intents on its own *)

\* entity lists of the two intents: the same pair with two confidences, and
\* pairs whose type or value holds a colon
RuleEntityLists ==
    { <<>>,
      <<Entity("location", "A", 60)>>,
      <<Entity("location", "A", 90), Entity("time", "9", 40)>>,
      <<Entity("time", "start:9", 90)>> }

ModelEntityLists ==
    { <<>>,
      <<Entity("location", "A", 90)>>,
      <<Entity("location", "A", 60)>>,
      <<Entity("time", "9", 40), Entity("location", "A", 60),
        Entity("location", "A", 90)>>,
      <<Entity("time", "start:9", 90), Entity("time:start", "9", 50)>> }

\* confidences of the rule intent and of the model intent, in percent
RuleConfidences == {0, CommandConfidence, ToolConfidence, ToolConfidence + 1, CapConfidence}
ModelConfidences == {FallbackConfidence, ToolConfidence, 95}

\* the intents _merge_intents is given
RuleIntents ==
    { Intent(IF tool_name = None THEN CHAT ELSE TOOL_SPECIFIC, confidence,
             tool_name, entities, "w1") :
        confidence \in RuleConfidences, tool_name \in {None, "weather"},
        entities \in RuleEntityLists }

ModelIntents ==
    { Intent(IF tool_name = None THEN CHAT ELSE TOOL_SPECIFIC, confidence,
             tool_name, entities, "w1") :
        confidence \in ModelConfidences, tool_name \in {None, "market"},
        entities \in ModelEntityLists }

\* one call of _merge_intents: its two arguments and what it returned
Merge(rule_intent, model_intent, merged_intent) ==
    [rule_intent |-> rule_intent, model_intent |-> model_intent,
     merged_intent |-> merged_intent]

MergeInit ==
    \E rule_intent \in RuleIntents, model_intent \in ModelIntents :
        merge = Merge(rule_intent, model_intent, <<>>)

\* _merge_intents returns
MergeReturns ==
    /\ merge.merged_intent = <<>>
    /\ merge' = [merge EXCEPT !.merged_intent =
                    <<merge_intents(merge.rule_intent, merge.model_intent)>>]
    /\ UNCHANGED <<cacheVars, last, ret, recogVars, routerVars, lifeVars, history>>

InitMerge ==
    /\ CacheInit({DefaultMaxEntries}, {AbsentFile})
    /\ RecogIdle
    /\ RouterIdle
    /\ HistoryIdle
    /\ MergeInit

NextMerge == MergeReturns

SpecMerge == InitMerge /\ [][NextMerge]_vars

----------------------------------------------------------------------------
(* IntentCache: properties *)

\* C1: on a cache that starts empty (no file to load entries from), the exact
\* cache holds at most max_entries entries after an add returns.
C1_SizeWithinMaxEntries ==
    (file.kind # "ok" /\ last.op = "add") => Len(exact_cache) <= max_entries

KeywordSet(query) == Range(extract_keywords(query))

\* C2: the keyword index is the inverse of the exact cache: q is in
\* keyword_index[k] iff k is a keyword of q and q is a key of the exact cache;
\* no bucket is empty.
C2_IndexIsInverse ==
    /\ \A k \in DOMAIN keyword_index :
          /\ keyword_index[k] # {}
          /\ \A q \in keyword_index[k] :
                q \in Keys(exact_cache) /\ k \in KeywordSet(q)
    /\ \A q \in Keys(exact_cache) :
          \A k \in KeywordSet(q) :
             k \in DOMAIN keyword_index /\ q \in keyword_index[k]

\* an add at capacity evicted the only query of some keyword, whose bucket went
C2_Witness ==
    /\ last.op = "add" /\ last.fresh /\ last.pre >= max_entries
    /\ Len(exact_cache) = last.pre
    /\ "q4" \in Keys(exact_cache)
    /\ "dd" \notin DOMAIN keyword_index
    /\ "cc" \in DOMAIN keyword_index

\* C3 as stated: an add of a new query to a cache of max_entries entries leaves
\* at most 0.75 * max_entries + 1 entries.
C3_ThreeQuartersPlusOne ==
    (last.op = "add" /\ last.fresh /\ last.pre = max_entries)
        => 4 * Len(exact_cache) <= 3 * max_entries + 4

\* C3 amended: an add of a new query to a cache of max_entries entries removes
\* floor(max_entries / 4) entries first, and leaves
\* max_entries - floor(max_entries / 4) + 1 = ceil(0.75 * max_entries) + 1.
C3_CeilThreeQuartersPlusOne ==
    (last.op = "add" /\ last.fresh /\ last.pre = max_entries)
        => /\ Len(exact_cache) = max_entries - (max_entries \div 4) + 1
           /\ Len(exact_cache) = ((3 * max_entries + 3) \div 4) + 1

\* max_entries = 5: one of five entries is evicted, and five are held again
C3_Witness ==
    /\ last.op = "add" /\ last.fresh /\ last.pre = max_entries
    /\ max_entries = 5
    /\ Len(exact_cache) = 5

\* C4: add(q, i) immediately followed by lookup(q) returns i.
C4_AddThenLookup ==
    /\ (last.op = "lookup" /\ last.i # <<>>) => ret = last.i
    /\ last.op = "add" =>
          \A t \in Thresholds, order \in SetOrders :
             lookup(exact_cache, keyword_index, last.q, t, order) = last.i

\* the add overwrote another entry of the query in a cache at capacity
C4_Witness ==
    /\ last.op = "lookup" /\ last.i = <<DictB>> /\ last.q = "q1"
    /\ ret = <<DictB>>
    /\ Len(exact_cache) >= max_entries
    /\ Len(exact_cache) = 4

\* |K(a) /\ K(b)| / |K(a) \/ K(b)|
Jaccard(a, b) ==
    <<Cardinality(KeywordSet(a) \cap KeywordSet(b)),
      Cardinality(KeywordSet(a) \cup KeywordSet(b))>>

\* the cached queries that share a keyword with the query
Sharing(query) == {c \in Keys(exact_cache) : KeywordSet(c) \cap KeywordSet(query) # {}}

\* the queries of Sharing(query) of maximal Jaccard similarity with it
Closest(query) ==
    LET sharing == Sharing(query)
    IN  {c \in sharing : \A d \in sharing : FracGe(Jaccard(query, c), Jaccard(query, d))}

\* what C5 lets lookup(query, t) return, r; best is Closest(query)
JaccardAnswer(query, best, t, r) ==
    IF \E c \in best : FracGe(Jaccard(query, c), t)
    THEN \E c \in best : r = <<Get(exact_cache, c)>>
    ELSE r = <<>>

\* C5: for a query that is no key of the exact cache, lookup returns the entry of
\* a cached query sharing a keyword with it and of maximal Jaccard similarity if
\* that similarity is >= the threshold, and None otherwise. (A lookup leaves the
\* cache as it is, so the states it leads to need no second look.)
C5_FuzzyIsBestJaccard ==
    /\ (last.op = "lookup" /\ last.fresh)
          => JaccardAnswer(last.q, Closest(last.q), last.t, ret)
    /\ last.op # "lookup" =>
          \A q \in Queries \ Keys(exact_cache) :
             LET best == Closest(q)
             IN  \A t \in Thresholds, order \in SetOrders :
                    JaccardAnswer(q, best, t,
                                  lookup(exact_cache, keyword_index, q, t, order))

\* keywords {aa, cc} against the cached {aa, bb}: 1/3, a hit at threshold 1/3
C5_Witness ==
    /\ last.op = "lookup" /\ last.q = "q2" /\ last.t = <<1, 3>>
    /\ Keys(exact_cache) = {"q1", "q4"}
    /\ ret = <<Get(exact_cache, "q1")>>

\* C6: for a key q of the exact cache, lookup(q, t) returns the entry stored
\* under q for every threshold t.
C6_ExactFirst ==
    /\ (last.op = "lookup" /\ ~last.fresh) => ret = <<Get(exact_cache, last.q)>>
    /\ last.op # "lookup" =>
          \A q \in Keys(exact_cache), t \in Thresholds, order \in SetOrders :
             lookup(exact_cache, keyword_index, q, t, order) = <<Get(exact_cache, q)>>

\* threshold 3/2, and another cached query of the same keywords and another entry
C6_Witness ==
    /\ last.op = "lookup" /\ last.q = "q1" /\ last.t = <<3, 2>>
    /\ {"q1", "q3"} \subseteq Keys(exact_cache)
    /\ Get(exact_cache, "q1") = DictA /\ Get(exact_cache, "q3") = DictB
    /\ ret = <<DictA>>

----------------------------------------------------------------------------
(* IntentRecognizer: properties *)

\* the call of caller 1 went through the merge and returned
Merged == tasks[1].pc = "done" /\ tasks[1].model # <<>> /\ tasks[1].result # <<>>

\* the rule-side intent handed to _merge_intents
MergeRule ==
    IF tasks[1].rule # <<>> THEN tasks[1].rule[1]
    ELSE Intent(UNKNOWN, 0, None, <<>>, tasks[1].text)

\* C7 as the specification states it: the merged kind is the rule intent's kind
\* whenever rule confidence >= model confidence, the model intent's kind otherwise.
C7_TieFavoursRule ==
    Merged =>
        tasks[1].result[1].type =
            IF MergeRule.confidence >= tasks[1].model[1].confidence
            THEN MergeRule.type ELSE tasks[1].model[1].type

\* C7 as the code has it: the merged kind is the rule intent's kind only when the
\* rule confidence is strictly greater than the model confidence, and the model
\* intent's kind otherwise, ties included; rule {TOOL_SPECIFIC, 0.7, weather} merged
\* with model {CHAT, 0.7, no tool} yields kind CHAT with tool weather.
C7_TieFavoursModel ==
    Merged =>
        /\ tasks[1].result[1].type =
               IF MergeRule.confidence > tasks[1].model[1].confidence
               THEN MergeRule.type ELSE tasks[1].model[1].type
        /\ ( /\ MergeRule.type = TOOL_SPECIFIC /\ MergeRule.confidence = 70
             /\ MergeRule.tool_name = "weather"
             /\ tasks[1].model[1].type = CHAT /\ tasks[1].model[1].confidence = 70
             /\ tasks[1].model[1].tool_name = None )
           => tasks[1].result[1].type = CHAT /\ tasks[1].result[1].tool_name = "weather"

\* a merge of the example: rule {TOOL_SPECIFIC, 0.7, weather}, model {CHAT, 0.7, None}
C7_Witness ==
    /\ Merged
    /\ MergeRule.type = TOOL_SPECIFIC /\ MergeRule.confidence = 70
    /\ MergeRule.tool_name = "weather"
    /\ tasks[1].model[1].type = CHAT /\ tasks[1].model[1].confidence = 70
    /\ tasks[1].model[1].tool_name = None
    /\ tasks[1].result[1].type = CHAT

\* the tool whose keywords _apply_rules finds first in the text, with the number of
\* its keywords the text contains; <<>> when no tool matches
RECURSIVE FirstTool(_, _)
FirstTool(tools, text) ==
    IF tools = <<>> THEN <<>>
    ELSE IF MatchedKeywords(Head(tools).keywords, text) > 0
         THEN <<[tool |-> Head(tools).tool,
                 n |-> MatchedKeywords(Head(tools).keywords, text)]>>
         ELSE FirstTool(Tail(tools), text)

\* the call of caller 1 missed the cache and returned, for a text that holds exactly
\* one keyword of the tool it matches
OneKeywordMiss ==
    /\ tasks[1].pc = "done" /\ ~tasks[1].hit /\ tasks[1].result # <<>>
    /\ FirstTool(TOOL_KEYWORDS, Lower(tasks[1].text)) # <<>>
    /\ FirstTool(TOOL_KEYWORDS, Lower(tasks[1].text))[1].n = 1

\* C8 as the specification states it: for a query with exactly one keyword of a
\* tool, recognize on a cache miss returns TOOL_SPECIFIC, confidence >= 0.7 and that
\* tool's name, without invoking the model.
C8_OneKeywordSkipsModel ==
    OneKeywordMiss =>
        /\ tasks[1].result[1].type = TOOL_SPECIFIC
        /\ tasks[1].result[1].confidence >= 70
        /\ tasks[1].result[1].tool_name =
               FirstTool(TOOL_KEYWORDS, Lower(tasks[1].text))[1].tool
        /\ tasks[1].model_calls = 0

\* C8 as the code has it: for a query with exactly one keyword of a tool (rule
\* confidence 0.7, not above 0.8), recognize on a cache miss invokes the model once
\* and returns the merge: confidence >= 0.7; kind TOOL_SPECIFIC when the model's
\* confidence is below 0.7 and the model's kind otherwise; the matched tool's name
\* when the model names no tool and the model's tool otherwise. The model is skipped
\* only when two or more keywords of the tool match.
C8_OneKeywordAsksModel ==
    /\ OneKeywordMiss =>
        /\ tasks[1].model_calls = 1
        /\ tasks[1].model # <<>>
        /\ tasks[1].result[1].confidence >= 70
        /\ tasks[1].result[1].type =
               IF tasks[1].model[1].confidence < 70
               THEN TOOL_SPECIFIC ELSE tasks[1].model[1].type
        /\ tasks[1].result[1].tool_name =
               IF tasks[1].model[1].tool_name = None
               THEN FirstTool(TOOL_KEYWORDS, Lower(tasks[1].text))[1].tool
               ELSE tasks[1].model[1].tool_name
    /\ ( /\ tasks[1].pc = "done" /\ ~tasks[1].hit
         /\ FirstTool(TOOL_KEYWORDS, Lower(tasks[1].text)) # <<>>
         /\ FirstTool(TOOL_KEYWORDS, Lower(tasks[1].text))[1].n >= 2 )
       => tasks[1].model_calls = 0 /\ tasks[1].result = tasks[1].rule

\* the weather example missed the cache, asked the model once and came back as
\* TOOL_SPECIFIC for weather
C8_Witness ==
    /\ OneKeywordMiss
    /\ tasks[1].text = "w1"
    /\ tasks[1].model_calls = 1
    /\ tasks[1].result[1].type = TOOL_SPECIFIC
    /\ tasks[1].result[1].tool_name = "weather"
    /\ tasks[1].result[1].confidence = 70

\* the model's response reached the analyzer of caller 1, and the analyzer is done
Analyzed == tasks[1].pc = "done" /\ tasks[1].response # <<>>

\* the call of the model raised
TransportFailed(response) == response.transport = "error"

\* the response does not parse into the expected object: no content, no object in
\* it, an object json.loads rejects, or a confidence that is no number
ParseFailed(response) ==
    /\ response.transport = "ok"
    /\ \/ response.content \in {"none", "prose", "broken"}
       \/ response.content = "json" /\ response.result.confidence = <<>>

\* C9 as the specification states it: on a transport error or an unparsable
\* response the analyzer returns, without raising, UNKNOWN with confidence 0.3.
C9_FailureGivesUnknown ==
    (Analyzed /\ (TransportFailed(tasks[1].response[1])
                  \/ ParseFailed(tasks[1].response[1]))) =>
        /\ ~tasks[1].raised
        /\ tasks[1].model # <<>>
        /\ tasks[1].model[1].type = UNKNOWN
        /\ tasks[1].model[1].confidence = 30

\* C9 as the code has it: the analyzer never raises and returns an intent of
\* confidence 0.3 without tool or entities, whose kind is CHAT when the model call
\* raised, the content is missing or json.loads rejects the object, and UNKNOWN when
\* the response holds no object or the object's confidence is not a number.
C9_FailureGivesChatOrUnknown ==
    (Analyzed /\ (TransportFailed(tasks[1].response[1])
                  \/ ParseFailed(tasks[1].response[1]))) =>
        /\ ~tasks[1].raised
        /\ tasks[1].model # <<>>
        /\ tasks[1].model[1].confidence = 30
        /\ tasks[1].model[1].tool_name = None
        /\ tasks[1].model[1].entities = <<>>
        /\ tasks[1].model[1].raw_query = tasks[1].text
        /\ tasks[1].model[1].type =
               IF \/ TransportFailed(tasks[1].response[1])
                  \/ tasks[1].response[1].content \in {"none", "broken"}
               THEN CHAT ELSE UNKNOWN

\* the model call raised and the analyzer returned CHAT at 0.3
C9_Witness ==
    /\ Analyzed
    /\ TransportFailed(tasks[1].response[1])
    /\ ~tasks[1].raised
    /\ tasks[1].model # <<>>
    /\ tasks[1].model[1].type = CHAT
    /\ tasks[1].model[1].confidence = 30

----------------------------------------------------------------------------
(* ToolRouter: properties *)

\* C10: every finished route call returned a ToolResult and raised nothing,
\* whatever the intent and the router's state.
C10_AlwaysToolResult ==
    route.pc = "done" => route.raised = <<>> /\ route.result # <<>>

\* the tool processes that are alive: the transports entered and not yet exited
Live(tool_name) ==
    {j \in DOMAIN exit_stack :
        exit_stack[j].kind = "transport" /\ exit_stack[j].tool = tool_name}

\* C11: at any time at most one spawned process is alive per tool name, also when
\* route and initialize calls interleave at their awaits and when initialize is
\* called again.
C11_OneProcessPerTool ==
    \A tool_name \in Registered : Cardinality(Live(tool_name)) <= 1

\* how often a context occurs in a sequence of contexts
Count(contexts, c) == Cardinality({j \in DOMAIN contexts : contexts[j] = c})

\* C12: when cleanup ends, the exit of every transport and session that the
\* connection attempts had entered was called, those entered while cleanup was
\* closing included, and none is left on the exit stack, also when exits failed.
C12_CleanupClosesAll ==
    cleanup.pc = "done" =>
        /\ cleanup.left = 0
        /\ \A j \in DOMAIN cleanup.start :
              Count(cleanup.attempted, cleanup.start[j])
                  >= Count(cleanup.start, cleanup.start[j])
        /\ cleanup.raised = cleanup.failed

\* cleanup ended after an exit failed, with the contexts of two connection attempts
\* closed
C12_Witness ==
    /\ cleanup.pc = "done"
    /\ cleanup.failed /\ cleanup.raised
    /\ Len(cleanup.start) >= 4
    /\ Len(cleanup.attempted) >= Len(cleanup.start)
    /\ exit_stack = <<>>

\* the route call is for an intent whose tool is not registered
RouteUnregistered == route.intent # <<>> /\ route.intent[1].tool_name \notin Registered

\* C13: a route call for an intent whose tool name is not a registered tool, the
\* absent tool name included, returns NOT_FOUND at once: it makes no connection
\* attempt and no invocation and raises nothing.
C13_UnregisteredIsNotFound ==
    RouteUnregistered =>
        /\ route.pc = "done"
        /\ route.raised = <<>>
        /\ route.result # <<>>
        /\ route.result[1].status = "not_found"
        /\ route.connects = 0
        /\ route.invocations = 0

\* a route call for an intent without tool name returned NOT_FOUND
C13_Witness ==
    /\ RouteUnregistered
    /\ route.intent[1].tool_name = None
    /\ route.pc = "done"
    /\ route.result[1].status = NOT_FOUND

\* a step that starts a route call for a registered tool
RouteStarts ==
    /\ route'.calls = route.calls + 1
    /\ route'.intent[1].tool_name \in Registered

\* a step in which the connection attempt of the route call returns
RouteConnected == route.pc = "connecting" /\ route'.pc # "connecting"

\* C14: for a registered tool, a route call attempts a connection exactly when the
\* tool has no session when the call starts, and at most once; if the tool has no
\* session after the attempt, the call returns ERROR without an invocation.
C14_LazyConnectOnce ==
    /\ [](route.connects <= 1)
    /\ [][ /\ RouteStarts =>
                route'.connects =
                    IF route'.intent[1].tool_name \in DOMAIN sessions THEN 0 ELSE 1
           /\ route'.calls = route.calls => route'.connects = route.connects
           /\ (RouteConnected /\ route.intent[1].tool_name \notin DOMAIN sessions') =>
                /\ route'.pc = "done"
                /\ route'.result # <<>>
                /\ route'.result[1].status = "error"
                /\ route'.invocations = 0
           /\ (RouteConnected /\ route'.invocations > 0) =>
                route.intent[1].tool_name \in DOMAIN sessions'
         ]_vars

\* a route call for a registered tool attempted one connection, found no session
\* after it and returned ERROR
C14_Witness ==
    /\ route.pc = "done"
    /\ route.intent[1].tool_name \in Registered
    /\ route.intent[1].tool_name \notin DOMAIN sessions
    /\ route.connects = 1
    /\ route.invocations = 0
    /\ route.result # <<>>
    /\ route.result[1].status = ERROR

\* the route call selected a method that the session of its tool did not advertise
SelectedUnadvertised ==
    /\ route.intent # <<>>
    /\ route.method_name # ""
    /\ route.intent[1].tool_name \in DOMAIN sessions
    /\ route.method_name \notin Range(sessions[route.intent[1].tool_name].tools)

\* C15: if the method selected for an intent is not among the method names the
\* session advertised, the route call returns ERROR and invokes nothing.
C15_UnadvertisedIsError ==
    SelectedUnadvertised =>
        /\ route.pc = "done"
        /\ route.raised = <<>>
        /\ route.result # <<>>
        /\ route.result[1].status = "error"
        /\ route.invocations = 0

\* find_product was selected over a market session that advertised list_category
\* only, and the route call returned ERROR
C15_Witness ==
    /\ SelectedUnadvertised
    /\ route.pc = "done"
    /\ route.method_name = "find_product"
    /\ Range(sessions["market"].tools) = {"list_category"}
    /\ route.result[1].status = ERROR

\* C16: initialize attempts a connection for every registered tool and does not
\* raise; when it has returned, every tool whose own connection succeeded has a
\* session, whatever became of the other connections.
C16_InitializeConnectsAll ==
    initialize.pc = "done" =>
        /\ ~initialize.raised
        /\ Len(initialize.attempts) = Len(tool_mapping)
        /\ \A j \in DOMAIN initialize.attempts :
              initialize.attempts[j] => tool_mapping[j].tool \in DOMAIN sessions

\* initialize returned after the connections of weather and area_search failed and
\* that of market succeeded
C16_Witness ==
    /\ initialize.pc = "done"
    /\ initialize.attempts = <<FALSE, TRUE, FALSE>>
    /\ DOMAIN sessions = {"market"}

\* C17: no retry. One route call makes at most one connection attempt and at most
\* one invocation, and does not come back to the connection or to the invocation
\* once it left them; one recognize call calls the model at most once and does not
\* come back to the model once it answered, whatever failed.
C17_NoSilentRetry ==
    /\ [](HasRouter => route.connects <= 1 /\ route.invocations <= 1)
    /\ [](HasRecognizer => \A t \in Tasks : tasks[t].model_calls <= 1)
    /\ [][ /\ (HasRouter /\ route'.calls = route.calls) =>
                /\ route'.pc = "connecting" => route.pc = "connecting"
                /\ route'.pc = "calling" => route.pc \in {"connecting", "calling"}
                /\ route'.connects = route.connects
                /\ route.pc = "done" => route'.pc = "done"
           /\ HasRecognizer =>
                \A t \in Tasks :
                    tasks'[t].calls = tasks[t].calls =>
                        /\ tasks'[t].pc = "awaiting" => tasks[t].pc = "awaiting"
                        /\ tasks'[t].model_calls = tasks[t].model_calls
         ]_vars

\* a route call whose invocation raised returned ERROR after one connection
\* attempt and one invocation
C17_Witness ==
    /\ HasRouter
    /\ route.pc = "done"
    /\ route.connects = 1
    /\ route.invocations = 1
    /\ route.result # <<>>
    /\ route.result[1].status = ERROR

\* a recognize call whose model call failed returned after that one model call
C17_WitnessRecognize ==
    /\ HasRecognizer
    /\ tasks[1].pc = "done"
    /\ tasks[1].response # <<>>
    /\ tasks[1].response[1].transport = "error"
    /\ tasks[1].model_calls = 1

----------------------------------------------------------------------------
(* IntentRecognizer: more properties *)

\* the call of caller 1 was answered from the cache
Hit == tasks[1].pc = "done" /\ tasks[1].hit

\* C18: when lookup returns an entry for the query, by an exact or a fuzzy match,
\* recognize returns the intent that entry serializes, applies no rule, does not
\* call the model, and leaves the exact cache and the keyword index as they were.
C18_HitShortCircuits ==
    /\ [](Hit =>
            /\ ret # <<>>
            /\ ~tasks[1].raised
            /\ tasks[1].result # <<>>
            /\ to_dict(tasks[1].result[1]) = ret[1]
            /\ tasks[1].rule = <<>>
            /\ tasks[1].model = <<>>
            /\ tasks[1].model_calls = 0)
    /\ [][(tasks'[1].calls # tasks[1].calls /\ tasks'[1].hit) =>
            /\ exact_cache' = exact_cache
            /\ keyword_index' = keyword_index
            /\ \E order \in SetOrders :
                  ret' = lookup(exact_cache, keyword_index, tasks'[1].text,
                                DefaultThreshold, order)]_vars

\* a fuzzy hit: the query is no key of the cache, and the intent of a cached query
\* with its entities came back
C18_Witness ==
    /\ Hit
    /\ tasks[1].text \notin Keys(exact_cache)
    /\ tasks[1].result # <<>>
    /\ tasks[1].result[1].entities # <<>>
    /\ tasks[1].result[1].raw_query # Lower(tasks[1].text)

----------------------------------------------------------------------------
(* IntentRecognizer: properties of _merge_intents *)

\* _merge_intents has returned
MergeDone == DOMAIN merge # {} /\ merge.merged_intent # <<>>

GivenEntities ==
    { merge.rule_intent.entities[j] : j \in DOMAIN merge.rule_intent.entities }
        \cup { merge.model_intent.entities[j] : j \in DOMAIN merge.model_intent.entities }

Pair(entity) == <<entity.type, entity.value>>

\* C20: the merged entity list holds exactly one entity for each distinct
\* (type, value) pair among the rule and model entities, and that entity
\* carries the highest confidence among the duplicates of the pair.
C20_OneEntityPerPair ==
    MergeDone =>
        LET merged == merge.merged_intent[1].entities
        IN  /\ \A j \in DOMAIN merged : merged[j] \in GivenEntities
            /\ \A entity \in GivenEntities :
                    \E j \in DOMAIN merged :
                        /\ Pair(merged[j]) = Pair(entity)
                        /\ merged[j].confidence >= entity.confidence
                        /\ \A k \in DOMAIN merged :
                                Pair(merged[k]) = Pair(entity) => k = j

----------------------------------------------------------------------------
(* IntentCache: properties of the cache with its past *)

\* the places of the exact cache that hold an entry of a query
PlacesOf(query) == {j \in DOMAIN exact_cache : exact_cache[j].q = query}

\* the last operation was an add over an entry of the same query
Overwrote == last.op = "add" /\ history.old # <<>>

\* C21: after add(q, i1) followed later by add(q, i2) the cache holds exactly one
\* entry for q and it equals i2; the second add creates no second key and no
\* second index membership: where it runs no cleanup, the keys, their number
\* and the keyword index are as they were.
C21_LastWriteWins ==
    /\ [](Overwrote =>
            /\ Cardinality(PlacesOf(last.q)) = 1
            /\ <<Get(exact_cache, last.q)>> = last.i
            /\ \A k \in DOMAIN keyword_index :
                  last.q \in keyword_index[k] <=> k \in KeywordSet(last.q))
    /\ [][(Overwrote' /\ history'.adds # history.adds /\ history'.evicted = {}) =>
            /\ [j \in DOMAIN exact_cache' |-> exact_cache'[j].q]
                  = [j \in DOMAIN exact_cache |-> exact_cache[j].q]
            /\ keyword_index' = keyword_index]_vars

\* q1 held DictA, the add stored DictB under it, and other keys are held
C21_Witness ==
    /\ Overwrote
    /\ last.q = "q1" /\ history.old = <<DictA>> /\ last.i = <<DictB>>
    /\ history.evicted = {}
    /\ Len(exact_cache) = 3

----------------------------------------------------------------------------
(* IntentCache: properties of the saves *)

\* this step is a call of save_cache (the clock stands still during it)
SaveStep == last'.op = "save" /\ now' = now

\* the write of the last save_cache was tried and failed
FailedWrite == last.save \in {"open_fails", "dump_fails"}

\* C22: save(force=false) writes the file only if at least 30 seconds have
\* elapsed since the last successful save (since construction when there was
\* none); save(force=true) attempts the write regardless of the elapsed time.
C22_SaveIsDebounced ==
    [][SaveStep =>
         LET elapsed == now - history.saved_at
         IN  /\ ~history'.force =>
                   (last'.save # "skipped" <=> elapsed >= SaveInterval)
             /\ history'.force => last'.save # "skipped"
             /\ last'.save = "skipped" => file' = file]_vars

\* a save that is not forced wrote 60 seconds after construction
C22_Witness ==
    /\ last.op = "save" /\ ~history.force /\ last.save = "ok"
    /\ now = 2 * SaveInterval /\ history.saved_at = now
    /\ file = OkFile(exact_cache) /\ Len(exact_cache) = 3

\* C23: a save whose write fails raises nothing to the caller and leaves the
\* exact cache, the keyword index and the last-save time unchanged.
C23_FailedSaveIsSilent ==
    [][(SaveStep /\ FailedWrite') =>
         /\ ~last'.raised
         /\ UNCHANGED <<exact_cache, keyword_index, last_save_time>>]_vars

\* json.dump failed 59 seconds after construction, nothing written before
C23_Witness ==
    /\ last.op = "save" /\ last.save = "dump_fails"
    /\ file = CorruptFile
    /\ now = 2 * SaveInterval - 1 /\ last_save_time = 0 /\ history.saved_at = 0
    /\ Len(exact_cache) = 2

\* C24: load never raises; if the file exists but cannot be read or parsed into
\* the expected mapping, the exact cache and the keyword index end empty;
\* otherwise the keyword index after load is exactly the index rebuilt from the
\* exact cache, with nothing carried over from before the load. (Nothing writes
\* the file between a load and the state after it.)
C24_LoadRebuildsIndex ==
    last.op \in {"init", "load"} =>
        /\ ~last.raised
        /\ IF file.kind = "corrupt"
           THEN exact_cache = <<>> /\ keyword_index = EmptyIndex
           ELSE /\ keyword_index = RebuildIndex(EmptyIndex, exact_cache)
                /\ file.kind = "ok" => exact_cache = file.data

\* the load dropped q5, the only query of keyword dd, and dd is not indexed
C24_Witness ==
    /\ last.op = "load" /\ file.kind = "ok"
    /\ "q5" \in history.evicted
    /\ "dd" \notin DOMAIN keyword_index
    /\ "cc" \in DOMAIN keyword_index

\* C25 as stated: counting the add calls on a cache that started empty, add
\* attempts a save after the n-th insertion exactly when n is a multiple of
\* 100, also after evictions.
C25_SaveEveryHundredAdds ==
    last.op = "add" => (last.save # "none" <=> history.adds % SavePeriod = 0)

\* C25 amended: add attempts a save exactly when the exact cache holds a
\* multiple of 100 entries once the entry is stored; the calls counted are
\* those that leave such a size, whatever their number.
C25_SaveAtHundredEntries ==
    last.op = "add" =>
        /\ last.save # "none" <=> Len(exact_cache) % SavePeriod = 0
        /\ history.adds = Len(exact_cache) =>
              (last.save # "none" <=> history.adds % SavePeriod = 0)

\* max_entries = 100: the 101st add evicted 25 entries, and the 125th add, of
\* a new query, brings the cache to 100 entries again and writes the file
C25_Witness ==
    /\ last.op = "add" /\ last.fresh /\ last.save = "ok"
    /\ max_entries = SavePeriod
    /\ history.adds = 125 /\ Len(exact_cache) = SavePeriod

----------------------------------------------------------------------------
(* IntentRecognizer: properties of the rules and of the confidence *)

\* the call of caller 1 missed the cache and went through _apply_rules
RulesApplied == tasks[1].pc \in {"awaiting", "done"} /\ ~tasks[1].hit

\* C26: for a query containing n >= 1 keywords of the matched tool, the rule
\* engine returns a TOOL_SPECIFIC intent for that tool whose confidence is 0.7
\* when n = 1 and min(0.9, 0.7 + 0.1 * n) when n >= 2; the rule confidence never
\* exceeds 0.9.
C26_RuleConfidence ==
    RulesApplied =>
        LET matched == FirstTool(TOOL_KEYWORDS, Lower(tasks[1].text))
            rule == tasks[1].rule
        IN  /\ rule # <<>> => rule[1].confidence <= 90
            /\ matched # <<>> =>
                  /\ rule # <<>>
                  /\ rule[1].type = TOOL_SPECIFIC
                  /\ rule[1].tool_name = matched[1].tool
                  /\ matched[1].n = 1 => rule[1].confidence = 70
                  /\ matched[1].n >= 2 =>
                        rule[1].confidence = Min(90, 70 + 10 * matched[1].n)

\* three weather keywords: 0.7 + 0.3 is capped at 0.9
C26_Witness ==
    /\ RulesApplied
    /\ tasks[1].text = "w3"
    /\ FirstTool(TOOL_KEYWORDS, "w3") = <<[tool |-> "weather", n |-> 3]>>
    /\ tasks[1].rule[1].confidence = 90
    /\ tasks[1].rule[1].tool_name = "weather"

\* C27: every intent returned by recognize, whether it comes from the rules,
\* the model, the merge or the cache, has a confidence within [0, 1], whatever
\* confidence the model's response carries.
C27_ConfidenceInUnitInterval ==
    (tasks[1].pc = "done" /\ tasks[1].result # <<>>) =>
        /\ tasks[1].result[1].confidence >= 0
        /\ tasks[1].result[1].confidence <= 100

----------------------------------------------------------------------------
(* ToolRouter: properties of the sessions after cleanup *)

\* C28: after cleanup completes no session remains registered for any tool, so
\* a later route call for a registered tool takes the lazy-connect path instead
\* of invoking an operation on a torn-down session. (With the exit stack empty
\* every session that was opened has been torn down.)
C28_NoSessionAfterCleanup ==
    (cleanup.pc = "done" /\ exit_stack = <<>>) => DOMAIN sessions = {}

----------------------------------------------------------------------------
(* IntentCache: properties of the eviction order *)

\* this step is a call of add
AddStep == history'.adds = history.adds + 1

\* C29: each eviction removes exactly floor(0.25 * n) entries, n being the
\* cache size when eviction runs, and they are the oldest by insertion order:
\* no surviving key was inserted before an evicted key, and overwriting an
\* existing key does not make it younger.
C29_EvictsOldestQuarter ==
    [][AddStep =>
         LET n == Len(exact_cache)
             evicted == history'.evicted
             kept == Keys(exact_cache) \ evicted
         IN  /\ evicted \subseteq Keys(exact_cache)
             /\ Keys(exact_cache') = kept \cup {last'.q}
             /\ Len(exact_cache') = Cardinality(kept \cup {last'.q})
             /\ Cardinality(evicted) = IF n >= max_entries THEN n \div 4 ELSE 0
             /\ \A e \in evicted, k \in kept : history.born[e] < history.born[k]
             /\ \A k \in kept : history'.born[k] = history.born[k]]_vars

\* max_entries = 4 over a file of two entries: one of three adds overwrote an
\* entry, the fourth found four entries and evicted q3, the first of the file
C29_Witness ==
    /\ last.op = "add" /\ last.fresh /\ last.pre = 4
    /\ max_entries = 4 /\ file.kind = "ok"
    /\ history.adds = 4
    /\ history.evicted = {"q3"}
    /\ Len(exact_cache) = 4

----------------------------------------------------------------------------
(* IntentCache: properties of the ties of the fuzzy lookup *)

\* of a set of cached queries, the one the exact cache holds first
Earliest(queries) ==
    CHOOSE c \in queries :
        \A d \in queries : Entry(exact_cache, c) <= Entry(exact_cache, d)

\* C30: when several candidates share the maximal Jaccard similarity with the
\* query, the fuzzy lookup returns the entry of the tied candidate that comes
\* first in cache insertion order, so that the result is the same for the same
\* cache contents and query.
C30_TieGoesToEarliest ==
    (last.op = "lookup" /\ last.fresh /\ ret # <<>>) =>
        ret = <<Get(exact_cache, Earliest(Closest(last.q)))>>

(* ToolRouter: properties of the parameters *)

\* the step of execute_tool_async in which _select_method_and_params returned
Selected ==
    /\ route' # route
    /\ route.pc \in {"idle", "done", "connecting"}
    /\ route'.method_name # ""

\* the location the weather operation is to use: the first entity of type location,
\* city or place, else the state manager's location, else the default
LocationToUse(intent, sm, ctx) ==
    IF LocationEntity(intent.entities) # <<>> THEN LocationEntity(intent.entities)[1]
    ELSE IF sm /\ ctx.location # "" THEN ctx.location
         ELSE "cq"

\* C31: for a weather intent the city queried is the one of the intent's first
\* location-type entity (location, city or place) when it has one, else the one of
\* the state manager's current location, else the one of the default
C31_LocationByPrecedence ==
    [][(Selected /\ route'.intent[1].tool_name = "weather")
         => route'.params["city"]
              = CityOf(LocationToUse(route'.intent[1], state_manager, context))]_vars

\* the categories of area_search and their operations
CategoryMethod ==
    [restaurant |-> "search_nearby_food", shopping |-> "search_nearby_shopping",
     entertainment |-> "search_nearby_entertainment"]

\* the poi_type of an intent, lowered: <<>> when it has none
PoiType(intent) ==
    LET params == EntityParams(<<>>, intent.entities)
    IN  IF "poi_type" \in DOMAIN params THEN <<Lower(params["poi_type"])>> ELSE <<>>

\* C32: an area-search intent whose poi_type names a category gets that category's
\* operation whatever its raw query holds, and the generic operation is chosen only
\* when neither the poi_type nor a word of the raw query names a category
C32_PoiTypeDecides ==
    [][(Selected /\ route'.intent[1].tool_name = "area_search")
         => LET intent == route'.intent[1]
            IN  /\ (PoiType(intent) # <<>> /\ PoiType(intent)[1] \in DOMAIN CategoryMethod)
                     => route'.method_name = CategoryMethod[PoiType(intent)[1]]
                /\ route'.method_name = "search_nearby"
                     => /\ ~(PoiType(intent) # <<>>
                             /\ PoiType(intent)[1] \in DOMAIN CategoryMethod)
                        /\ RouterWords(intent.raw_query) \cap {"shi", "gouwu", "yule"}
                             = {}]_vars

(* IntentRecognizer: properties of the raw query *)

\* a recognize call that reached the merge and returned
ReachedMerge(t) == tasks[t].pc = "done" /\ tasks[t].model # <<>>

\* the rule-derived intent the merge of task t was given
RuleGiven(t) ==
    IF tasks[t].rule # <<>> THEN tasks[t].rule[1]
    ELSE Intent(UNKNOWN, 0, None, <<>>, tasks[t].text)

\* C33: in a recognize call that reached the merge, the rule-derived intent, the
\* model-derived intent and the merged intent all carry the original query text as
\* their raw query
C33_RawQueryIsTheText ==
    \A t \in Tasks :
        ReachedMerge(t) =>
            /\ RuleGiven(t).raw_query = tasks[t].text
            /\ tasks[t].model[1].raw_query = tasks[t].text
            /\ tasks[t].result[1].raw_query = tasks[t].text

(* IntentRecognizer: properties of callers in flight together *)

\* no entry was ever removed from the cache: the cache is far from its capacity
NothingEvicted == Len(exact_cache) < max_entries \div 2

\* C34: with the cache in use and nothing evicted, the model is called at most once
\* for a text, also when several recognize calls for it are in flight together
C34_ModelOncePerText ==
    (use_cache /\ NothingEvicted) => \A text \in RaceTexts : history.invoked[text] <= 1

(* ToolRouter: properties of the connection *)

\* the tools whose spawned process is still entered on the exit stack
LiveProcesses == {exit_stack[k].tool : k \in {j \in DOMAIN exit_stack :
                                                exit_stack[j].kind = "transport"}}

\* C35: a connection attempt is all or nothing: when no session is registered for a
\* tool, no process spawned for it is still alive, so failed attempts leave nothing
C35_ConnectAllOrNothing ==
    route.pc # "connecting" => LiveProcesses \subseteq DOMAIN sessions

(* IntentRecognizer: properties of what a miss leaves in the cache *)

\* a recognize call that missed the cache has returned an intent
MissReturned == use_cache /\ tasks[1].pc = "done" /\ ~tasks[1].hit /\ tasks[1].result # <<>>

\* C36: after a recognize call that missed the cache returned, the exact cache holds
\* under the query text the serialization of the intent returned, the default of
\* confidence 0.3 included, and a following call for the same text returns that
\* intent from the cache with no call of the model
C36_MissIsCached ==
    /\ [](MissReturned =>
            /\ tasks[1].text \in Keys(exact_cache)
            /\ Get(exact_cache, tasks[1].text) = to_dict(tasks[1].result[1]))
    /\ [][(MissReturned /\ tasks'[1].calls # tasks[1].calls
             /\ tasks'[1].text = tasks[1].text) =>
            /\ tasks'[1].pc = "done"
            /\ tasks'[1].hit
            /\ tasks'[1].model_calls = 0
            /\ tasks'[1].result = tasks[1].result
            /\ exact_cache' = exact_cache]_vars

\* the default intent of a failed model call came back from the cache on the second
\* call for the text
C36_Witness ==
    /\ use_cache
    /\ Hit
    /\ tasks[1].calls = 2
    /\ tasks[1].text = "chat"
    /\ tasks[1].result = <<Intent(CHAT, FallbackConfidence, None, <<>>, "chat")>>
    /\ Get(exact_cache, "chat") = to_dict(tasks[1].result[1])

(* IntentCache: properties of an add over an existing key *)

\* C37: add(q, i) for a query q that is already a key changes only q's entry: every
\* other entry stays in the exact cache as it was and the keyword index is unchanged,
\* whatever the size of the cache
C37_OverwriteTouchesOneEntry ==
    [][(AddStep /\ last'.q \in Keys(exact_cache)) =>
         /\ \A k \in Keys(exact_cache) \ {last'.q} :
               /\ k \in Keys(exact_cache')
               /\ Get(exact_cache', k) = Get(exact_cache, k)
         /\ keyword_index' = keyword_index]_vars

(* IntentRecognizer: properties of a fuzzy hit *)

\* a recognize call returned an entry of the cache that is not the query's own
FuzzyHit == Hit /\ tasks[1].text \notin Keys(exact_cache)

\* C38: on a fuzzy hit recognize returns the intent stored for a cached query as it
\* is stored, raw query, tool name and entities included, adds no entry for the new
\* text, and the next call for that text is a fuzzy hit again
C38_FuzzyHitAddsNothing ==
    /\ [](FuzzyHit =>
            /\ ~tasks[1].raised
            /\ \E k \in Keys(exact_cache) :
                  LET stored == Get(exact_cache, k)
                      intent == tasks[1].result[1]
                  IN  /\ k # tasks[1].text
                      /\ TypeName(intent.type) = stored.type
                      /\ intent.confidence = stored.confidence
                      /\ intent.raw_query = stored.raw_query
                      /\ intent.tool_name = stored.tool_name
                      /\ intent.entities = stored.entities)
    /\ [][(tasks'[1].calls # tasks[1].calls /\ tasks'[1].hit
             /\ tasks'[1].text \notin Keys(exact_cache)) =>
            /\ exact_cache' = exact_cache
            /\ keyword_index' = keyword_index]_vars
    /\ [][(FuzzyHit /\ tasks'[1].calls # tasks[1].calls
             /\ tasks'[1].text = tasks[1].text) =>
            /\ FuzzyHit'
            /\ tasks'[1].model_calls = 0]_vars

\* the cache holds the file's entry of w1 alone after two calls, the second a fuzzy
\* hit for w1b that returned w1's intent with its entity and its raw query
C38_Witness ==
    /\ FuzzyHit
    /\ tasks[1].calls = 2
    /\ tasks[1].text = "w1b"
    /\ Keys(exact_cache) = {"w1"}
    /\ tasks[1].result[1].raw_query = "w1"
    /\ tasks[1].result[1].tool_name = "weather"
    /\ tasks[1].result[1].entities = <<Entity("location", "cq", 80)>>

(* IntentCache: properties of a save followed by a construction *)

\* the last operation was a forced save that wrote the file
ForcedSaveDone == last.op = "save" /\ last.save = "ok" /\ history.force

\* C39: a cache constructed over the file a successful save(force=True) wrote holds
\* the exact cache that was saved, keys in the same order with the same entries, and
\* a keyword index equal to the one of the saved cache
C39_SaveThenConstructRoundTrips ==
    [][(ForcedSaveDone /\ last'.op = "init") =>
         /\ exact_cache' = exact_cache
         /\ keyword_index' = keyword_index]_vars

\* a cache of four entries after the eviction of q3, one with entities and one with
\* no tool name, was saved by force and built again from the file
C39_Witness ==
    /\ last.op = "init"
    /\ history.force /\ history.saves = 1 /\ history.constructions = 1
    /\ file = OkFile(exact_cache)
    /\ [j \in DOMAIN exact_cache |-> exact_cache[j].q] = <<"q2", "q4", "q5", "q1">>
    /\ Get(exact_cache, "q4") = DictE
    /\ Get(exact_cache, "q1").tool_name = None
    /\ keyword_index["cc"] = {"q2", "q5"}

============================================================================
